---- MODULE Spec2Model ----
(***************************************************************************)
(* The rewrite pipeline of conclave/comp.py: an operator DAG is rewritten *)
(* by eight passes (MPCPushDown, UpdateColumns, MPCPushUp,                *)
(* TrustSetPropDown, HybridOperatorOpt, InsertOpenAndCloseOps,            *)
(* ExpandCompositeOps, StoredWithSimplifier), each visiting the nodes of  *)
(* a topological order computed when the pass starts.                     *)
(*                                                                         *)
(* A node is a record; the node store `nodes` is a sequence, a node's     *)
(* identity is its position (the Python object identity), its relation    *)
(* name is a separate field (a sequence of character codes, so that       *)
(* sorting by name is Python's string order).  Column references held by  *)
(* a node (selected_cols, group_cols, ...) are 1-based positions in the   *)
(* input relation.                                                        *)
(***************************************************************************)
EXTENDS Integers, Sequences, FiniteSets, TLC

VARIABLES
    nodes,          \* the node store: Seq of node records
    roots,          \* OpDag.roots: the set of root node ids
    pass,           \* 0 before MPCPushDown, i while/after pass i of rewrite_dag
    todo,           \* the rest of `ordered` of the running pass
    err,            \* "none", or the exception that aborted the pipeline
    visited,        \* the log: <<rewriter, node id>> per visited node, in order
    join_counter,   \* ExpandCompositeOps.join_counter
    agg_counter,    \* ExpandCompositeOps.agg_counter
    all_parties,    \* the all_parties argument of rewrite_dag
    use_leaky_ops,  \* the use_leaky_ops argument of rewrite_dag
    iter_order,     \* how this run iterates unordered sets: "asc" or "desc"
    input,          \* the workflow the run was started on (never changes)
    pre             \* the node store as it was when the running pass began

vars == <<nodes, roots, pass, todo, err, visited, join_counter, agg_counter,
          all_parties, use_leaky_ops, iter_order, input, pre>>

----------------------------------------------------------------------------
(* Generic helpers *)

Range(s) == {s[i] : i \in 1..Len(s)}

MinOf(S) == CHOOSE x \in S : \A y \in S : x <= y

\* the intersection of a non-empty collection of sets
RECURSIVE InterAll(_)
InterAll(seq) ==
    IF Len(seq) = 0 THEN {}
    ELSE IF Len(seq) = 1 THEN seq[1]
    ELSE seq[1] \cap InterAll(Tail(seq))

RECURSIVE UnionAll(_)
UnionAll(seq) == IF Len(seq) = 0 THEN {} ELSE seq[1] \cup UnionAll(Tail(seq))

----------------------------------------------------------------------------
(* Relation names: sequences of character codes, compared as Python       *)
(* compares strings.                                                      *)

RECURSIVE NameLess(_, _)
NameLess(a, b) ==
    IF Len(b) = 0 THEN FALSE
    ELSE IF Len(a) = 0 THEN TRUE
    ELSE IF a[1] # b[1] THEN a[1] < b[1]
    ELSE NameLess(Tail(a), Tail(b))

\* str(idx) for a one-digit idx
Digit(i) == <<48 + i>>

\* "_" + str(idx)
SufIdx(i) == <<95>> \o Digit(i)

SufObl == <<95, 111, 98, 108>>                        \* "_obl"
SufClose == <<95, 99, 108, 111, 115, 101>>            \* "_close"
SufOpen == <<95, 111, 112, 101, 110>>                 \* "_open"

----------------------------------------------------------------------------
(* The DAG value threaded through the operators of a visit:               *)
(*   d.n    the node store                                                *)
(*   d.err  "none" or the exception raised so far; once an exception is   *)
(*          raised the rest of the handler has no effect.                 *)

\*   d.ord  the order in which this run of the interpreter iterates an
\*          unordered set: "asc" or "desc" by node id (party id)
Dag(n, e, o) == [n |-> n, err |-> e, ord |-> o]

\* next(iter(S)) for a non-empty set S of ids
First(d, S) ==
    IF d.ord = "asc" THEN CHOOSE x \in S : \A y \in S : x <= y
    ELSE CHOOSE x \in S : \A y \in S : x >= y

\* list(S): the elements of S in iteration order
RECURSIVE IterOrder(_, _)
IterOrder(d, S) ==
    IF S = {} THEN <<>>
    ELSE <<First(d, S)>> \o IterOrder(d, S \ {First(d, S)})

Raise(d, e) == IF d.err # "none" THEN d ELSE [d EXCEPT !.err = e]

Ok(d) == d.err = "none"

NoNode == 0

\* a fresh node record (a constructor of conclave.dag: is_mpc is false by default)
NewNode(kind, name, par, sw, cols) ==
    [kind |-> kind, name |-> name, parents |-> Range(par), children |-> {},
     par |-> par, is_mpc |-> FALSE, sw |-> sw, cols |-> cols,
     c1 |-> <<>>, c2 |-> <<>>, tc |-> 0, tp |-> 0]

\* the id the next added node gets
NextId(d) == Len(d.n) + 1

\* add a node object to the store (it is not linked to anything yet)
AddNode(d, rec) == [d EXCEPT !.n = Append(@, rec)]

Set(d, i, f, v) == [d EXCEPT !.n[i][f] = v]

----------------------------------------------------------------------------
(* Sorting node ids by relation name (get_sorted_parents,                  *)
(* get_sorted_children): equal names keep the order of their ids.          *)

Before(n, a, b) ==
    \/ NameLess(n[a].name, n[b].name)
    \/ (n[a].name = n[b].name /\ a < b)

RECURSIVE SortByName(_, _)
SortByName(n, S) ==
    IF S = {} THEN <<>>
    ELSE LET m == CHOOSE x \in S : \A y \in S \ {x} : Before(n, x, y)
         IN <<m>> \o SortByName(n, S \ {m})

get_sorted_parents(d, i) == SortByName(d.n, d.n[i].parents)

get_sorted_children(d, i) == SortByName(d.n, d.n[i].children)

is_leaf(d, i) == d.n[i].children = {}

is_root(d, i) == d.n[i].parents = {}

----------------------------------------------------------------------------
(* conclave.dag: structural primitives (spec section 4.A).  Each keeps the *)
(* two endpoints of an edge in step.                                      *)

\* the columns a node's references index: the output columns of its input
\* relations, in the order of its parent fields
InCols(d, i, k) ==
    IF k <= Len(d.n[i].par) THEN d.n[d.n[i].par[k]].cols ELSE <<>>

\* update_op_specific_cols(): re-resolve the node's column references in its
\* current input relation(s); fails if a referenced column no longer exists
RefsResolve(d, i) ==
    LET nd == d.n[i]
        one == Len(InCols(d, i, 1))
        two == Len(InCols(d, i, 2))
    IN  /\ \A k \in 1..Len(nd.c1) : nd.c1[k] \in 1..one
        /\ \A k \in 1..Len(nd.c2) : nd.c2[k] \in 1..two
        /\ nd.tc \in 0..one

update_op_specific_cols(d, i) ==
    IF ~Ok(d) THEN d
    ELSE IF RefsResolve(d, i) THEN d
    ELSE Raise(d, "InvariantViolation: column reference does not resolve")

replace_parent(d, c, old, new) ==
    IF ~Ok(d) \/ old \notin d.n[c].parents THEN d
    ELSE [d EXCEPT !.n[c].parents = (@ \ {old}) \cup {new},
                   !.n[c].par = [k \in 1..Len(@) |-> IF @[k] = old THEN new ELSE @[k]]]

replace_child(d, p, old, new) ==
    IF ~Ok(d) \/ old \notin d.n[p].children THEN d
    ELSE [d EXCEPT !.n[p].children = (@ \ {old}) \cup {new}]

\* insert_between(parent, child, other): splice `other` onto the edge
\* parent -> child; child may be None (NoNode), then `other` becomes a new
\* leaf under parent
insert_between(d, p, c, o) ==
    IF ~Ok(d) THEN d
    ELSE IF c # NoNode /\ c \notin d.n[p].children
    THEN Raise(d, "insert_between: not an edge")
    ELSE LET d1 == [d EXCEPT !.n[o].parents = {p},
                             !.n[o].par = <<p>>,
                             !.n[o].children = IF c = NoNode THEN {} ELSE {c},
                             !.n[p].children = (@ \ {c}) \cup {o}]
         IN  IF c = NoNode THEN d1
             ELSE update_op_specific_cols(replace_parent(d1, c, p, o), c)

\* remove_between(parent, child, other): the inverse; `other` is left with
\* no parent and no child
remove_between(d, p, c, o) ==
    IF ~Ok(d) THEN d
    ELSE IF o \notin d.n[p].children \/ (c # NoNode /\ c \notin d.n[o].children)
    THEN Raise(d, "remove_between: not an edge")
    ELSE LET d1 == [d EXCEPT !.n[o].parents = {},
                             !.n[o].par = <<>>,
                             !.n[o].children = {},
                             !.n[p].children =
                                 (@ \ {o}) \cup (IF c = NoNode THEN {} ELSE {c})]
         IN  IF c = NoNode THEN d1
             ELSE update_op_specific_cols(replace_parent(d1, c, o, p), c)

RECURSIVE ReparentAll(_, _, _, _)
ReparentAll(d, cs, old, new) ==
    IF Len(cs) = 0 THEN d
    ELSE ReparentAll(update_op_specific_cols(replace_parent(d, cs[1], old, new), cs[1]),
                     Tail(cs), old, new)

\* insert_between_children(parent, other): put `other` between parent and
\* all of parent's current children
insert_between_children(d, p, o) ==
    IF ~Ok(d) THEN d
    ELSE LET cs == d.n[p].children
             d1 == [d EXCEPT !.n[o].parents = {p},
                             !.n[o].par = <<p>>,
                             !.n[o].children = cs,
                             !.n[p].children = {o}]
         IN  ReparentAll(d1, SortByName(d.n, cs), p, o)

----------------------------------------------------------------------------
(* conclave.dag: the operator catalog (spec section 4.C)                  *)

\* the kinds that are cryptographic whatever their inputs
CryptoKinds == {"Close", "Open", "HybridJoin", "HybridAggregate"}

ReversibleKinds == {"Project", "Filter", "Multiply", "Divide", "Concat"}

\* the parties the inputs of a node are stored with
InParties(d, i) == UNION {d.n[p].sw : p \in d.n[i].parents}

\* requires_mpc(): the inputs come from at least two distinct parties, or the
\* kind is cryptographic
requires_mpc(d, i) ==
    \/ d.n[i].kind \in CryptoKinds
    \/ Cardinality(InParties(d, i)) >= 2

is_reversible(d, i) == d.n[i].kind \in ReversibleKinds

\* is_boundary(): the parents have differing stored-with sets
is_boundary(d, i) ==
    \E p, q \in d.n[i].parents : d.n[p].sw # d.n[q].sw

\* is_lower_boundary(): the node is MPC and at the lower edge of the MPC
\* region: one of its children is not MPC, or it is an MPC leaf (scenario S3:
\* the final MPC aggregate gets its Open)
is_lower_boundary(d, i) ==
    /\ d.n[i].is_mpc
    /\ \/ d.n[i].children = {}
       \/ \E c \in d.n[i].children : ~d.n[c].is_mpc

\* get_in_rel().stored_with of a unary node
InStoredWith(d, i) == d.n[d.n[i].par[1]].sw

\* update_stored_with(): a unary node's output is stored where its input is
update_stored_with(d, i) ==
    IF ~Ok(d) THEN d ELSE Set(d, i, "sw", InStoredWith(d, i))

\* update_out_rel_cols() of a Concat: the schema of the first input
update_out_rel_cols(d, i) ==
    IF ~Ok(d) \/ d.n[i].parents = {} THEN d
    ELSE Set(d, i, "cols", d.n[get_sorted_parents(d, i)[1]].cols)

----------------------------------------------------------------------------
(* OpDag.top_sort (spec section 4.A): a deterministic topological order of *)
(* the nodes reachable from the roots; among the nodes whose parents have  *)
(* all been placed, the one with the smallest name comes first.            *)

RECURSIVE ReachFrom(_, _, _)
ReachFrom(n, S, k) ==
    LET T == S \cup UNION {n[i].children : i \in S}
    IN  IF T = S \/ k = 0 THEN S ELSE ReachFrom(n, T, k - 1)

\* the nodes of the DAG
DagNodes(n, r) == ReachFrom(n, r, Len(n))

\* the edges of the DAG, as the children sets record them
HasEdge(n, p, c) == c \in n[p].children

RECURSIVE Kahn(_, _, _)
Kahn(n, left, placed) ==
    LET ready == {i \in left : \A p \in left : ~HasEdge(n, p, i)}
    IN  IF left = {} \/ ready = {} THEN placed
        ELSE LET m == CHOOSE x \in ready : \A y \in ready \ {x} : Before(n, x, y)
             IN  Kahn(n, left \ {m}, Append(placed, m))

top_sort(n, r) == Kahn(n, DagNodes(n, r), <<>>)

Reverse(s) == [k \in 1..Len(s) |-> s[Len(s) + 1 - k]]

----------------------------------------------------------------------------
(* conclave.lang: the DSL constructors, as the workflows of src/test and   *)
(* the doctests of comp.py use them.  Each adds one node under its input   *)
(* node(s).  A column is [nm |-> name, ts |-> trust set].                  *)

Col(nm, ts) == [nm |-> nm, ts |-> ts]

\* utils.find: the 1-based position of the column named nm, 0 if there is none
FindCol(cols, nm) ==
    IF \E k \in 1..Len(cols) : cols[k].nm = nm
    THEN CHOOSE k \in 1..Len(cols) : cols[k].nm = nm /\ \A j \in 1..(k - 1) : cols[j].nm # nm
    ELSE 0

SelectCols(cols, idxs) == [k \in 1..Len(idxs) |-> cols[idxs[k]]]

\* the positions of cols that are not in idxs, ascending
RECURSIVE OtherIdxs(_, _, _)
OtherIdxs(len, idxs, k) ==
    IF k > len THEN <<>>
    ELSE (IF k \in Range(idxs) THEN <<>> ELSE <<k>>) \o OtherIdxs(len, idxs, k + 1)

\* link a new node under its parents
RECURSIVE AddChildTo(_, _, _)
AddChildTo(d, ps, c) ==
    IF ps = {} THEN d
    ELSE LET p == CHOOSE x \in ps : TRUE
         IN  AddChildTo([d EXCEPT !.n[p].children = @ \cup {c}], ps \ {p}, c)

AddOp(d, rec) ==
    IF ~Ok(d) THEN d ELSE AddChildTo(AddNode(d, rec), rec.parents, NextId(d))

create(d, name, cols, sw) == AddOp(d, NewNode("Create", name, <<>>, sw, cols))

\* a unary operator whose output schema is its input's
UnaryLike(d, kind, in, name) ==
    NewNode(kind, name, <<in>>, d.n[in].sw, d.n[in].cols)

project(d, in, name, sel) ==
    AddOp(d, [UnaryLike(d, "Project", in, name) EXCEPT
                 !.cols = SelectCols(d.n[in].cols, sel), !.c1 = sel])

cc_filter(d, in, name, fcol, ocol) ==
    AddOp(d, [UnaryLike(d, "Filter", in, name) EXCEPT !.c1 = <<fcol, ocol>>])

multiply(d, in, name, target, operands) ==
    AddOp(d, [UnaryLike(d, "Multiply", in, name) EXCEPT !.tc = target, !.c1 = operands])

divide(d, in, name, target, operands) ==
    AddOp(d, [UnaryLike(d, "Divide", in, name) EXCEPT !.tc = target, !.c1 = operands])

aggregate(d, in, name, gcols, acol) ==
    AddOp(d, [UnaryLike(d, "Aggregate", in, name) EXCEPT
                 !.cols = SelectCols(d.n[in].cols, gcols) \o <<d.n[in].cols[acol]>>,
                 !.c1 = gcols, !.tc = acol])

distinct(d, in, name, sel) ==
    AddOp(d, [UnaryLike(d, "Distinct", in, name) EXCEPT
                 !.cols = SelectCols(d.n[in].cols, sel), !.c1 = sel])

distinct_count(d, in, name, col) ==
    AddOp(d, [UnaryLike(d, "DistinctCount", in, name) EXCEPT
                 !.cols = <<d.n[in].cols[col]>>, !.c1 = <<col>>])

\* the output of a join: the key columns (of the left input), then the other
\* columns of the left input, then the other columns of the right input
JoinCols(d, l, r, lkeys, rkeys) ==
    SelectCols(d.n[l].cols, lkeys)
    \o SelectCols(d.n[l].cols, OtherIdxs(Len(d.n[l].cols), lkeys, 1))
    \o SelectCols(d.n[r].cols, OtherIdxs(Len(d.n[r].cols), rkeys, 1))

join(d, l, r, name, lkeys, rkeys) ==
    AddOp(d, [NewNode("Join", name, <<l, r>>, d.n[l].sw \cup d.n[r].sw,
                      JoinCols(d, l, r, lkeys, rkeys)) EXCEPT
                 !.c1 = lkeys, !.c2 = rkeys])

concat(d, ins, name) ==
    AddOp(d, NewNode("Concat", name, ins, UNION {d.n[i].sw : i \in Range(ins)},
                     d.n[ins[1]].cols))

RECURSIVE AllCols(_, _)
AllCols(d, ins) ==
    IF Len(ins) = 0 THEN <<>> ELSE d.n[ins[1]].cols \o AllCols(d, Tail(ins))

concat_cols(d, ins, name) ==
    AddOp(d, NewNode("ConcatCols", name, ins, UNION {d.n[i].sw : i \in Range(ins)},
                     AllCols(d, ins)))

\* collect(node, target_party): the result is to be stored with target_party
collect(d, i, party) == Set(d, i, "sw", {party})

----------------------------------------------------------------------------
(* comp.py: the helpers of MPCPushDown                                     *)

\* the subclass test of DagRewriter.rewrite for Aggregate, which a
\* HybridAggregate passes only after its own branch was tested
IsAggregate(k) == k \in {"Aggregate", "HybridAggregate"}

\* copy.deepcopy(node) with out_rel renamed and the copy's edges reset
CopyOf(d, i, name) ==
    [d.n[i] EXCEPT !.name = name, !.parents = {}, !.children = {}, !.par = <<>>]

\* next(iter(node.children), None)
OnlyChild(d, i) ==
    IF d.n[i].children = {} THEN NoNode ELSE First(d, d.n[i].children)

\* the copy keeps the stored_with of the node it was copied from
RECURSIVE PushCopies_KeepStoredWith(_, _, _, _, _)
PushCopies_KeepStoredWith(d, gps, idx, top, bottom) ==
    IF ~Ok(d) \/ idx >= Len(gps) THEN d
    ELSE LET id == NextId(d)
             d1 == AddNode(d, CopyOf(d, bottom, d.n[bottom].name \o SufIdx(idx)))
             d2 == insert_between(d1, gps[idx + 1], top, id)
         IN  PushCopies_KeepStoredWith(d2, gps, idx + 1, top, bottom)

RECURSIVE PushCopies(_, _, _, _, _)
PushCopies(d, gps, idx, top, bottom) ==
    IF ~Ok(d) \/ idx >= Len(gps) THEN d
    ELSE LET id == NextId(d)
             d1 == AddNode(d, CopyOf(d, bottom, d.n[bottom].name \o SufIdx(idx)))
             d2 == insert_between(d1, gps[idx + 1], top, id)
             d3 == update_stored_with(d2, id)
         IN  PushCopies(d3, gps, idx + 1, top, bottom)

push_op_node_down(d, top_node, bottom_node) ==
    IF ~Ok(d) THEN d
    ELSE IF Cardinality(d.n[bottom_node].children) > 1
    THEN Raise(d, "AssertionError: push_op_node_down")
    ELSE LET child == OnlyChild(d, bottom_node)
             d1 == remove_between(d, top_node, child, bottom_node)
             grand_parents == get_sorted_parents(d1, top_node)
         IN  PushCopies(d1, grand_parents, 0, top_node, bottom_node)

\* the clone is inserted without being tagged MPC
split_agg_CloneNotTagged(d, node) ==
    IF ~Ok(d) THEN d
    ELSE IF Cardinality(d.n[node].children) > 1
    THEN Raise(d, "AssertionError: split_agg children")
    ELSE IF Len(d.n[node].c1) # 1
    THEN Raise(d, "AssertionError: split_agg group_cols")
    ELSE LET id == NextId(d)
             clone == [CopyOf(d, node, d.n[node].name \o SufObl) EXCEPT
                          !.c1 = <<1>>, !.tc = 2]
             child == OnlyChild(d, node)
         IN  insert_between(AddNode(d, clone), node, child, id)

split_agg(d, node) ==
    IF ~Ok(d) THEN d
    ELSE IF Cardinality(d.n[node].children) > 1
    THEN Raise(d, "AssertionError: split_agg children")
    ELSE IF Len(d.n[node].c1) # 1
    THEN Raise(d, "AssertionError: split_agg group_cols")
    ELSE LET id == NextId(d)
             clone == [CopyOf(d, node, d.n[node].name \o SufObl) EXCEPT
                          !.c1 = <<1>>, !.tc = 2, !.is_mpc = TRUE]
             child == OnlyChild(d, node)
         IN  insert_between(AddNode(d, clone), node, child, id)

\* the forked child is left among the children of the original Concat
RECURSIVE ForkChildren_KeepChild(_, _, _, _)
ForkChildren_KeepChild(d, node, cs, idx) ==
    IF ~Ok(d) \/ idx >= Len(cs) THEN d
    ELSE LET id == NextId(d)
             child == cs[idx + 1]
             clone == [CopyOf(d, node, d.n[node].name \o SufIdx(idx)) EXCEPT
                          !.parents = d.n[node].parents,
                          !.par = d.n[node].par,
                          !.children = {child}]
             d1 == AddChildTo(AddNode(d, clone), clone.parents, id)
             d3 == update_op_specific_cols(replace_parent(d1, child, node, id), child)
         IN  ForkChildren_KeepChild(d3, node, cs, idx + 1)

RECURSIVE ForkChildren(_, _, _, _)
ForkChildren(d, node, cs, idx) ==
    IF ~Ok(d) \/ idx >= Len(cs) THEN d
    ELSE LET id == NextId(d)
             child == cs[idx + 1]
             clone == [CopyOf(d, node, d.n[node].name \o SufIdx(idx)) EXCEPT
                          !.parents = d.n[node].parents,
                          !.par = d.n[node].par,
                          !.children = {child}]
             d1 == AddChildTo(AddNode(d, clone), clone.parents, id)
             d2 == [d1 EXCEPT !.n[node].children = @ \ {child}]
             d3 == update_op_specific_cols(replace_parent(d2, child, node, id), child)
         IN  ForkChildren(d3, node, cs, idx + 1)

\* next(child_it) skips the first child (StopIteration when there is none)
fork_node(d, node) ==
    IF d.n[node].children = {} THEN Raise(d, "StopIteration")
    ELSE ForkChildren(d, node, get_sorted_children(d, node), 1)

----------------------------------------------------------------------------
(* comp.py: MPCPushDown                                                    *)

_do_commute(d, top_op, bottom_op) ==
    IF IsAggregate(d.n[top_op].kind)
    THEN d.n[bottom_op].kind = "Divide"
    ELSE FALSE

PushDown_rewrite_default(d, node) == Set(d, node, "is_mpc", requires_mpc(d, node))

\* a leaf is pushed above a boundary Concat like any other unary node
PushDown_rewrite_unary_default_NoLeafRule(d, node) ==
    IF d.n[node].parents = {} THEN Raise(d, "StopIteration")
    ELSE LET parent == First(d, d.n[node].parents)
         IN  IF ~d.n[parent].is_mpc THEN d
             ELSE IF d.n[parent].kind = "Concat" /\ is_boundary(d, parent)
             THEN update_out_rel_cols(push_op_node_down(d, parent, node), parent)
             ELSE IF IsAggregate(d.n[parent].kind) /\ _do_commute(d, parent, node)
             THEN LET agg_op == parent
                      agg_parent == d.n[agg_op].par[1]
                  IN  IF d.n[agg_parent].kind = "Concat" /\ is_boundary(d, agg_parent)
                      THEN IF Cardinality(d.n[agg_parent].children) # 1
                           THEN Raise(d, "AssertionError: concat_op.children")
                           ELSE LET d1 == push_op_node_down(d, agg_op, node)
                                    updated_node ==
                                        IF Ok(d1) THEN d1.n[agg_op].par[1] ELSE node
                                    d2 == push_op_node_down(d1, agg_parent, updated_node)
                                IN  update_out_rel_cols(d2, agg_parent)
                      ELSE Set(d, node, "is_mpc", TRUE)
             ELSE Set(d, node, "is_mpc", TRUE)

PushDown_rewrite_unary_default(d, node) ==
    IF d.n[node].parents = {} THEN Raise(d, "StopIteration")
    ELSE LET parent == First(d, d.n[node].parents)
         IN  IF ~d.n[parent].is_mpc THEN d
             ELSE IF is_leaf(d, node) THEN Set(d, node, "is_mpc", TRUE)
             ELSE IF d.n[parent].kind = "Concat" /\ is_boundary(d, parent)
             THEN update_out_rel_cols(push_op_node_down(d, parent, node), parent)
             ELSE IF IsAggregate(d.n[parent].kind) /\ _do_commute(d, parent, node)
             THEN LET agg_op == parent
                      agg_parent == d.n[agg_op].par[1]
                  IN  IF d.n[agg_parent].kind = "Concat" /\ is_boundary(d, agg_parent)
                      THEN IF Cardinality(d.n[agg_parent].children) # 1
                           THEN Raise(d, "AssertionError: concat_op.children")
                           ELSE LET d1 == push_op_node_down(d, agg_op, node)
                                    updated_node ==
                                        IF Ok(d1) THEN d1.n[agg_op].par[1] ELSE node
                                    d2 == push_op_node_down(d1, agg_parent, updated_node)
                                IN  update_out_rel_cols(d2, agg_parent)
                      ELSE Set(d, node, "is_mpc", TRUE)
             ELSE Set(d, node, "is_mpc", TRUE)

PushDown_rewrite_aggregate(d, node) ==
    IF d.n[node].parents = {} THEN Raise(d, "StopIteration")
    ELSE LET parent == First(d, d.n[node].parents)
         IN  IF ~d.n[parent].is_mpc THEN d
             ELSE IF d.n[parent].kind = "Concat" /\ is_boundary(d, parent)
             THEN update_out_rel_cols(
                      push_op_node_down(split_agg(d, node), parent, node), parent)
             ELSE Set(d, node, "is_mpc", TRUE)

PushDown_rewrite_concat(d, node) ==
    IF requires_mpc(d, node)
    THEN LET d1 == Set(d, node, "is_mpc", TRUE)
         IN  IF Cardinality(d1.n[node].children) > 1 /\ is_boundary(d1, node)
             THEN fork_node(d1, node)
             ELSE d1
    ELSE d

\* the kinds DagRewriter.rewrite dispatches; any other kind is an unknown class
DispatchedKinds ==
    {"HybridAggregate", "Aggregate", "Divide", "Project", "Filter", "Multiply",
     "JoinFlags", "RevealJoin", "HybridJoin", "Join", "Concat", "Close", "Open",
     "Create", "Distinct", "DistinctCount", "PubJoin", "ConcatCols"}

MPCPushDownVisit(d, node) ==
    LET k == d.n[node].kind
    IN  IF k \notin DispatchedKinds THEN Raise(d, "Unknown class")
        ELSE IF k = "Aggregate" THEN PushDown_rewrite_aggregate(d, node)
        ELSE IF k \in {"Divide", "Project", "Filter", "Multiply", "DistinctCount"}
        THEN PushDown_rewrite_unary_default(d, node)
        ELSE IF k = "RevealJoin"
        THEN Raise(d, "RevealJoin encountered during MPCPushDown")
        ELSE IF k = "HybridJoin"
        THEN Raise(d, "HybridJoin encountered during MPCPushDown")
        ELSE IF k \in {"Join", "ConcatCols", "PubJoin"}
        THEN PushDown_rewrite_default(d, node)
        ELSE IF k = "Concat" THEN PushDown_rewrite_concat(d, node)
        ELSE d

----------------------------------------------------------------------------
(* comp.py: UpdateColumns                                                  *)

UpdateColumnsVisit(d, node) == update_op_specific_cols(d, node)

----------------------------------------------------------------------------
(* comp.py: MPCPushUp                                                      *)

PushUp_rewrite_unary_default(d, node) ==
    IF d.n[node].parents = {} THEN Raise(d, "StopIteration")
    ELSE LET par == First(d, d.n[node].parents)
         IN  IF is_reversible(d, node) /\ is_lower_boundary(d, node) /\ ~is_root(d, par)
             THEN Set(Set(d, d.n[node].par[1], "sw", d.n[node].sw), node, "is_mpc", FALSE)
             ELSE d

\* the stored_with is pushed into root parents as well
RECURSIVE PushUpStoredWith_AlsoRoots(_, _, _)
PushUpStoredWith_AlsoRoots(d, pars, out_stored_with) ==
    IF Len(pars) = 0 THEN d
    ELSE PushUpStoredWith_AlsoRoots(Set(d, pars[1], "sw", out_stored_with),
                                    Tail(pars), out_stored_with)

RECURSIVE PushUpStoredWith(_, _, _)
PushUpStoredWith(d, pars, out_stored_with) ==
    IF Len(pars) = 0 THEN d
    ELSE LET par == pars[1]
             d1 == IF ~is_root(d, par) THEN Set(d, par, "sw", out_stored_with) ELSE d
         IN  PushUpStoredWith(d1, Tail(pars), out_stored_with)

\* the stored_with is pushed up but the Concat stays MPC
PushUp_rewrite_concat_StaysMpc(d, node) ==
    IF is_lower_boundary(d, node)
    THEN PushUpStoredWith(d, IterOrder(d, d.n[node].parents), d.n[node].sw)
    ELSE d

PushUp_rewrite_concat(d, node) ==
    IF is_lower_boundary(d, node)
    THEN Set(PushUpStoredWith(d, IterOrder(d, d.n[node].parents), d.n[node].sw),
             node, "is_mpc", FALSE)
    ELSE d

PushUp_rewrite_concat_cols(d, node) == Set(d, node, "is_mpc", TRUE)

MPCPushUpVisit(d, node) ==
    LET k == d.n[node].kind
    IN  IF k \notin DispatchedKinds THEN Raise(d, "Unknown class")
        ELSE IF k \in {"Divide", "Project", "Filter", "Multiply"}
        THEN PushUp_rewrite_unary_default(d, node)
        ELSE IF k = "RevealJoin"
        THEN Raise(d, "RevealJoin encountered during MPCPushUp")
        ELSE IF k = "HybridJoin"
        THEN Raise(d, "HybridJoin encountered during MPCPushUp")
        ELSE IF k = "Concat" THEN PushUp_rewrite_concat(d, node)
        ELSE IF k = "ConcatCols" THEN PushUp_rewrite_concat_cols(d, node)
        ELSE d

----------------------------------------------------------------------------
(* comp.py: TrustSetPropDown                                               *)

\* utils.merge_coll_sets
merge_coll_sets(a, b) == a \cap b

\* utils.trust_set_from_columns: the parties trusted with all of the columns
trust_set_from_columns(cols) == InterAll([k \in 1..Len(cols) |-> cols[k].ts])

\* out_rel.columns[k].trust_set = ts (an IndexError when there is no column k)
SetTrust(d, node, k, ts) ==
    IF ~Ok(d) THEN d
    ELSE IF k \notin 1..Len(d.n[node].cols) THEN Raise(d, "IndexError")
    ELSE [d EXCEPT !.n[node].cols[k].ts = ts]

PropDown_rewrite_linear_op(d, node) ==
    LET in_cols == InCols(d, node, 1)
        operands == SelectCols(in_cols, d.n[node].c1)
        d1 == SetTrust(d, node, d.n[node].tc, trust_set_from_columns(operands))
    IN  \* the other columns carry over; the first column is skipped
        IF ~Ok(d1) THEN d1
        ELSE [d1 EXCEPT !.n[node].cols =
                 [k \in 1..Len(@) |->
                     IF k >= 2 /\ k <= Len(in_cols)
                     THEN [@[k] EXCEPT !.ts = in_cols[k].ts]
                     ELSE @[k]]]

PropDown_rewrite_aggregate(d, node) ==
    LET in_cols == InCols(d, node, 1)
        in_group_cols_ts == trust_set_from_columns(SelectCols(in_cols, d.n[node].c1))
        last == Len(d.n[node].cols)
        in_agg_col == in_cols[d.n[node].tc]
    IN  [d EXCEPT !.n[node].cols =
            [k \in 1..Len(@) |->
                IF k < last
                THEN [@[k] EXCEPT !.ts = in_group_cols_ts]
                ELSE [@[k] EXCEPT !.ts = merge_coll_sets(in_agg_col.ts, in_group_cols_ts)]]]

PropDown_rewrite_project(d, node) ==
    LET selected_cols == SelectCols(InCols(d, node, 1), d.n[node].c1)
    IN  [d EXCEPT !.n[node].cols =
            [k \in 1..Len(@) |->
                IF k <= Len(selected_cols)
                THEN [@[k] EXCEPT !.ts = selected_cols[k].ts]
                ELSE @[k]]]

PropDown_rewrite_filter(d, node) ==
    LET in_cols == InCols(d, node, 1)
        condition_trust_set == trust_set_from_columns(SelectCols(in_cols, d.n[node].c1))
    IN  [d EXCEPT !.n[node].cols =
            [k \in 1..Len(@) |->
                IF k <= Len(in_cols)
                THEN [@[k] EXCEPT !.ts = merge_coll_sets(condition_trust_set, in_cols[k].ts)]
                ELSE @[k]]]

\* the trust set a non-key output column ends with: the inner loop over the
\* key pairs assigns the column once per pair, each assignment replacing the
\* one before
RECURSIVE LastKeyMerge(_, _, _)
LastKeyMerge(key_cols_coll_sets, in_ts, cur) ==
    IF Len(key_cols_coll_sets) = 0 THEN cur
    ELSE LastKeyMerge(Tail(key_cols_coll_sets), in_ts,
                      merge_coll_sets(key_cols_coll_sets[1], in_ts))

RECURSIVE JoinOthers(_, _, _, _, _, _)
JoinOthers(d, node, in_cols, idxs, abs_idx, kcs) ==
    IF ~Ok(d) \/ Len(idxs) = 0 THEN d
    ELSE LET d1 == IF Len(kcs) = 0 THEN d
                   ELSE SetTrust(d, node, abs_idx,
                                 LastKeyMerge(kcs, in_cols[idxs[1]].ts, {}))
         IN  JoinOthers(d1, node, in_cols, Tail(idxs), abs_idx + 1, kcs)

RECURSIVE JoinKeys(_, _, _, _)
JoinKeys(d, node, kcs, i) ==
    IF ~Ok(d) \/ i > Len(kcs) THEN d
    ELSE JoinKeys(SetTrust(d, node, i, kcs[i]), node, kcs, i + 1)

PropDown_rewrite_join(d, node) ==
    LET left_cols == InCols(d, node, 1)
        right_cols == InCols(d, node, 2)
        left_join_cols == d.n[node].c1
        right_join_cols == d.n[node].c2
        key_cols_coll_sets ==
            [i \in 1..Len(left_join_cols) |->
                merge_coll_sets(left_cols[left_join_cols[i]].ts,
                                right_cols[right_join_cols[i]].ts)]
        d1 == JoinKeys(d, node, key_cols_coll_sets, 1)
        lo == OtherIdxs(Len(left_cols), left_join_cols, 1)
        ro == OtherIdxs(Len(right_cols), right_join_cols, 1)
        d2 == JoinOthers(d1, node, left_cols, lo, Len(left_join_cols) + 1,
                         key_cols_coll_sets)
    IN  JoinOthers(d2, node, right_cols, ro, Len(left_join_cols) + Len(lo) + 1,
                   key_cols_coll_sets)

PropDown_rewrite_concat(d, node) ==
    LET ins == get_sorted_parents(d, node)
    IN  IF \E p \in Range(ins) : Len(d.n[p].cols) < Len(d.n[node].cols)
        THEN Raise(d, "IndexError")
        ELSE [d EXCEPT !.n[node].cols =
                 [k \in 1..Len(@) |->
                     [@[k] EXCEPT !.ts =
                         InterAll([j \in 1..Len(ins) |-> d.n[ins[j]].cols[k].ts])]]]

TrustSetPropDownVisit(d, node) ==
    LET k == d.n[node].kind
    IN  IF k \notin DispatchedKinds THEN Raise(d, "Unknown class")
        ELSE IF k = "Aggregate" THEN PropDown_rewrite_aggregate(d, node)
        ELSE IF k \in {"Divide", "Multiply"} THEN PropDown_rewrite_linear_op(d, node)
        ELSE IF k = "Project" THEN PropDown_rewrite_project(d, node)
        ELSE IF k = "Filter" THEN PropDown_rewrite_filter(d, node)
        ELSE IF k = "HybridJoin"
        THEN Raise(d, "HybridJoin encountered during CollSetPropDown")
        ELSE IF k = "Join" THEN PropDown_rewrite_join(d, node)
        ELSE IF k = "Concat" THEN PropDown_rewrite_concat(d, node)
        ELSE d

----------------------------------------------------------------------------
(* comp.py: HybridOperatorOpt                                              *)

RECURSIVE ReplaceChildIn(_, _, _, _)
ReplaceChildIn(d, pars, old, new) ==
    IF Len(pars) = 0 THEN d
    ELSE ReplaceChildIn(replace_child(d, pars[1], old, new), Tail(pars), old, new)

RECURSIVE ReplaceParentIn(_, _, _, _)
ReplaceParentIn(d, cs, old, new) ==
    IF Len(cs) = 0 THEN d
    ELSE ReplaceParentIn(replace_parent(d, cs[1], old, new), Tail(cs), old, new)

\* HybridAggregate.from_aggregate / HybridJoin.from_join (spec section 4.H):
\* the hybrid node takes the place of the node: same relation, same parents,
\* same children, and the children name it as their parent
FromOp(d, node, kind, STP) ==
    LET id == NextId(d)
        obj == [d.n[node] EXCEPT !.kind = kind, !.tp = STP]
    IN  ReplaceParentIn(AddNode(d, obj), IterOrder(d, d.n[node].children), node, id)

\* next(iter(trust_set))
PickSTP_AnyElement(d, trust_set) == First(d, trust_set)

\* sorted(trust_set)[0]
PickSTP(d, trust_set) == MinOf(trust_set)

\* the node is converted whether it is MPC or not
HybridOpt_convert_AlsoLocal(d, node, kind) ==
    IF Len(d.n[node].cols) = 0 THEN Raise(d, "IndexError")
    ELSE LET trust_set == d.n[node].cols[1].ts
         IN  IF trust_set = {} THEN d
             ELSE LET id == NextId(d)
                      d1 == FromOp(d, node, kind, PickSTP(d, trust_set))
                  IN  ReplaceChildIn(d1, IterOrder(d1, d1.n[id].parents), node, id)

HybridOpt_convert(d, node, kind) ==
    IF ~d.n[node].is_mpc THEN d
    ELSE IF Len(d.n[node].cols) = 0 THEN Raise(d, "IndexError")
    ELSE LET trust_set == d.n[node].cols[1].ts
         IN  IF trust_set = {} THEN d
             ELSE LET id == NextId(d)
                      d1 == FromOp(d, node, kind, PickSTP(d, trust_set))
                  IN  ReplaceChildIn(d1, IterOrder(d1, d1.n[id].parents), node, id)

HybridOpt_rewrite_aggregate(d, node) == HybridOpt_convert(d, node, "HybridAggregate")

HybridOpt_rewrite_join(d, node) == HybridOpt_convert(d, node, "HybridJoin")

HybridOperatorOptVisit(d, node) ==
    LET k == d.n[node].kind
    IN  IF k \notin DispatchedKinds THEN Raise(d, "Unknown class")
        ELSE IF k = "HybridAggregate"
        THEN Raise(d, "HybridAggregate encountered during HybridOperatorOpt")
        ELSE IF k = "Aggregate" THEN HybridOpt_rewrite_aggregate(d, node)
        ELSE IF k = "HybridJoin"
        THEN Raise(d, "HybridJoin encountered during HybridOperatorOpt")
        ELSE IF k = "Join" THEN HybridOpt_rewrite_join(d, node)
        ELSE d

----------------------------------------------------------------------------
(* comp.py: InsertOpenAndCloseOps                                          *)

\* ccdag.Close(out_rel, None) / ccdag.Open(out_rel, None) with is_mpc set:
\* out_rel is a deep copy of the relation of `of`, renamed, stored with sw
StoreNode(d, kind, of, suffix, sw) ==
    [NewNode(kind, d.n[of].name \o suffix, <<>>, sw, d.n[of].cols) EXCEPT
        !.is_mpc = TRUE]

\* cc._open(node, name, target_party): an Open under node
_open(d, in, name, target_party) ==
    AddOp(d, [NewNode("Open", name, <<in>>, {target_party}, d.n[in].cols) EXCEPT
                 !.is_mpc = TRUE])

\* cc._close(node, name, stored_with): a Close under node
_close(d, in, name, sw) ==
    AddOp(d, [NewNode("Close", name, <<in>>, sw, d.n[in].cols) EXCEPT
                 !.is_mpc = TRUE])

OpenClose_rewrite_default_unary(d, node) ==
    LET in_stored_with == InStoredWith(d, node)
        out_stored_with == d.n[node].sw
    IN  IF in_stored_with = out_stored_with THEN d
        ELSE IF is_lower_boundary(d, node)
        THEN LET id == NextId(d)
                 store_op == StoreNode(d, "Open", node, SufOpen, out_stored_with)
                 d1 == Set(AddNode(d, store_op), node, "sw", in_stored_with)
             IN  insert_between_children(d1, node, id)
        ELSE Raise(d, "different stored_with on non-lower-boundary unary op")

\* the target of the Open appended under a leaf: next(iter(out_stored_with))
OpenLeaf(d, node, in_stored_with, out_stored_with) ==
    IF ~Ok(d) THEN d
    ELSE IF is_leaf(d, node)
            /\ Cardinality(in_stored_with) > 1 /\ Cardinality(out_stored_with) = 1
    THEN LET target_party == First(d, out_stored_with)
         IN  _open(Set(d, node, "sw", in_stored_with), node,
                   d.n[node].name \o SufOpen, target_party)
    ELSE d

\* the Close keeps the stored_with of the parent relation it copies
RECURSIVE CloseJoinParents_OwnStoredWith(_, _, _, _)
CloseJoinParents_OwnStoredWith(d, node, pars, in_stored_with) ==
    IF ~Ok(d) \/ Len(pars) = 0 THEN d
    ELSE LET parent == pars[1]
             id == NextId(d)
             d1 == IF ~d.n[parent].is_mpc /\ d.n[parent].kind # "Close" /\ d.n[node].is_mpc
                   THEN insert_between(
                            AddNode(d, StoreNode(d, "Close", parent, SufClose,
                                                 d.n[parent].sw)),
                            parent, node, id)
                   ELSE d
         IN  CloseJoinParents_OwnStoredWith(d1, node, Tail(pars), in_stored_with)

RECURSIVE CloseJoinParents(_, _, _, _)
CloseJoinParents(d, node, pars, in_stored_with) ==
    IF ~Ok(d) \/ Len(pars) = 0 THEN d
    ELSE LET parent == pars[1]
             id == NextId(d)
             d1 == IF ~d.n[parent].is_mpc /\ d.n[parent].kind # "Close" /\ d.n[node].is_mpc
                   THEN insert_between(
                            AddNode(d, StoreNode(d, "Close", parent, SufClose, in_stored_with)),
                            parent, node, id)
                   ELSE d
         IN  CloseJoinParents(d1, node, Tail(pars), in_stored_with)

OpenClose_rewrite_join(d, node) ==
    LET out_stored_with == d.n[node].sw
        ordered_pars == d.n[node].par
        in_stored_with == d.n[ordered_pars[1]].sw \cup d.n[ordered_pars[2]].sw
        d1 == CloseJoinParents(d, node, ordered_pars, in_stored_with)
    IN  OpenLeaf(d1, node, in_stored_with, out_stored_with)

RECURSIVE CloseConcatParents(_, _, _, _)
CloseConcatParents(d, node, pars, out_stored_with) ==
    IF ~Ok(d) \/ Len(pars) = 0 THEN d
    ELSE LET parent == pars[1]
             id == NextId(d)
             d1 == IF d.n[parent].sw # out_stored_with
                   THEN insert_between(
                            AddNode(d, StoreNode(d, "Close", parent, SufClose, out_stored_with)),
                            parent, node, id)
                   ELSE d
         IN  CloseConcatParents(d1, node, Tail(pars), out_stored_with)

OpenClose_rewrite_concat(d, node) ==
    IF is_lower_boundary(d, node) THEN Raise(d, "AssertionError: concat is lower boundary")
    ELSE CloseConcatParents(d, node, get_sorted_parents(d, node), d.n[node].sw)

RECURSIVE CloseConcatColsParents(_, _, _, _)
CloseConcatColsParents(d, node, pars, in_stored_with) ==
    IF ~Ok(d) \/ Len(pars) = 0 THEN d
    ELSE LET parent == pars[1]
             id == NextId(d)
             d1 == IF d.n[parent].kind # "Close"
                   THEN insert_between(
                            AddNode(d, StoreNode(d, "Close", parent, SufClose, in_stored_with)),
                            parent, node, id)
                   ELSE d
         IN  CloseConcatColsParents(d1, node, Tail(pars), in_stored_with)

OpenClose_rewrite_concat_cols(d, node) ==
    LET out_stored_with == d.n[node].sw
        ordered_pars == get_sorted_parents(d, node)
        in_stored_with == UNION {d.n[p].sw : p \in Range(ordered_pars)}
        d1 == CloseConcatColsParents(d, node, ordered_pars, in_stored_with)
    IN  OpenLeaf(d1, node, in_stored_with, out_stored_with)

InsertOpenAndCloseOpsVisit(d, node) ==
    LET k == d.n[node].kind
    IN  IF k \notin DispatchedKinds THEN Raise(d, "Unknown class")
        ELSE IF k \in {"HybridAggregate", "Aggregate", "Divide", "DistinctCount",
                       "Project", "Filter", "Multiply"}
        THEN OpenClose_rewrite_default_unary(d, node)
        ELSE IF k \in {"HybridJoin", "Join"} THEN OpenClose_rewrite_join(d, node)
        ELSE IF k = "Concat" THEN OpenClose_rewrite_concat(d, node)
        ELSE IF k = "ConcatCols" THEN OpenClose_rewrite_concat_cols(d, node)
        ELSE d

----------------------------------------------------------------------------
(* The relation names of the expansion subgraphs *)

W ==
    [shuffled |-> <<115, 104, 117, 102, 102, 108, 101, 100>>,
     persisted |-> <<112, 101, 114, 115, 105, 115, 116, 101, 100>>,
     keys_closed |-> <<107, 101, 121, 115, 95, 99, 108, 111, 115, 101, 100>>,
     keys |-> <<107, 101, 121, 115>>,
     indexed |-> <<105, 110, 100, 101, 120, 101, 100>>,
     sorted_by_key |-> <<115, 111, 114, 116, 101, 100, 95, 98, 121, 95, 107, 101, 121>>,
     eq_flags |-> <<101, 113, 95, 102, 108, 97, 103, 115>>,
     sorted_by_key_dummy |-> <<115, 111, 114, 116, 101, 100, 95, 98, 121, 95, 107, 101, 121, 95, 100, 117, 109, 109, 121>>,
     closed_eq_flags |-> <<99, 108, 111, 115, 101, 100, 95, 101, 113, 95, 102, 108, 97, 103, 115>>,
     closed_sorted_by_key |-> <<99, 108, 111, 115, 101, 100, 95, 115, 111, 114, 116, 101, 100, 95, 98, 121, 95, 107, 101, 121>>,
     left_shuffled |-> <<108, 101, 102, 116, 95, 115, 104, 117, 102, 102, 108, 101, 100>>,
     right_shuffled |-> <<114, 105, 103, 104, 116, 95, 115, 104, 117, 102, 102, 108, 101, 100>>,
     left_persisted |-> <<108, 101, 102, 116, 95, 112, 101, 114, 115, 105, 115, 116, 101, 100>>,
     right_persisted |-> <<114, 105, 103, 104, 116, 95, 112, 101, 114, 115, 105, 115, 116, 101, 100>>,
     left_keys_closed |-> <<108, 101, 102, 116, 95, 107, 101, 121, 115, 95, 99, 108, 111, 115, 101, 100>>,
     right_keys_closed |-> <<114, 105, 103, 104, 116, 95, 107, 101, 121, 115, 95, 99, 108, 111, 115, 101, 100>>,
     left_keys_open |-> <<108, 101, 102, 116, 95, 107, 101, 121, 115, 95, 111, 112, 101, 110>>,
     right_keys_open |-> <<114, 105, 103, 104, 116, 95, 107, 101, 121, 115, 95, 111, 112, 101, 110>>,
     left_dummy |-> <<108, 101, 102, 116, 95, 100, 117, 109, 109, 121>>,
     right_dummy |-> <<114, 105, 103, 104, 116, 95, 100, 117, 109, 109, 121>>,
     flags |-> <<102, 108, 97, 103, 115>>,
     flags_closed |-> <<102, 108, 97, 103, 115, 95, 99, 108, 111, 115, 101, 100>>]

SufHybridJoin ==    \* "_hybrid_join_"
    <<95, 104, 121, 98, 114, 105, 100, 95, 106, 111, 105, 110, 95>>

SufHybridAgg ==     \* "_hybrid_agg_"
    <<95, 104, 121, 98, 114, 105, 100, 95, 97, 103, 103, 95>>

----------------------------------------------------------------------------
(* conclave.lang: the primitive operators the expansions are built from    *)
(* (spec section 4.J)                                                      *)

\* a unary primitive with the schema of its input
Primitive(d, kind, in, name, is_mpc) ==
    IF ~Ok(d) THEN d
    ELSE AddOp(d, [UnaryLike(d, kind, in, name) EXCEPT !.is_mpc = is_mpc])

\* the projection is tagged MPC whatever the assignment that follows says
ProjectNamed_AlwaysMpc(d, in, name, nms, is_mpc) ==
    IF ~Ok(d) THEN d
    ELSE LET sel == [k \in 1..Len(nms) |-> FindCol(d.n[in].cols, nms[k])]
         IN  IF 0 \in Range(sel) THEN Raise(d, "column not found")
             ELSE AddOp(d, [UnaryLike(d, "Project", in, name) EXCEPT
                               !.cols = SelectCols(d.n[in].cols, sel), !.c1 = sel,
                               !.is_mpc = TRUE])

\* cc.project(in, name, [column names]) followed by is_mpc = ...
ProjectNamed(d, in, name, nms, is_mpc) ==
    IF ~Ok(d) THEN d
    ELSE LET sel == [k \in 1..Len(nms) |-> FindCol(d.n[in].cols, nms[k])]
         IN  IF 0 \in Range(sel) THEN Raise(d, "column not found")
             ELSE AddOp(d, [UnaryLike(d, "Project", in, name) EXCEPT
                               !.cols = SelectCols(d.n[in].cols, sel), !.c1 = sel,
                               !.is_mpc = is_mpc])

\* cc.index(in, name, "row_index"): a row index column in front
IndexOp(d, in, name) ==
    IF ~Ok(d) THEN d
    ELSE AddOp(d, [UnaryLike(d, "Index", in, name) EXCEPT
                      !.cols = <<Col("row_index", {})>> \o d.n[in].cols])

\* cc._open / cc._close followed by is_mpc = TRUE
OpenTo(d, in, name, party) == IF ~Ok(d) THEN d ELSE _open(d, in, name, party)

CloseTo(d, in, name, sw) == IF ~Ok(d) THEN d ELSE _close(d, in, name, sw)

\* the expanded node is left among the children of its parent
RemoveChild_Skip(d, p, c) == d

\* node.parent.children.remove(node): a KeyError when node is not there
RemoveChild(d, p, c) ==
    IF ~Ok(d) THEN d
    ELSE IF c \notin d.n[p].children THEN Raise(d, "KeyError")
    ELSE [d EXCEPT !.n[p].children = @ \ {c}]

\* the children are handed to the leaf and still name the expanded node as
\* their parent
TakeChildren_KeepParent(d, node, leaf) ==
    IF ~Ok(d) THEN d ELSE Set(d, leaf, "children", d.n[node].children)

\* the leaf of an expansion takes over the children of the expanded node
TakeChildren(d, node, leaf) ==
    IF ~Ok(d) THEN d
    ELSE Set(ReplaceParentIn(d, get_sorted_children(d, node), node, leaf),
             leaf, "children", d.n[node].children)

----------------------------------------------------------------------------
(* comp.py: ExpandCompositeOps                                             *)

Expand_rewrite_agg_non_leaky(d, node, counter) ==
    LET suffix == SufHybridAgg \o Digit(counter)
        nd == d.n[node]
        parent == nd.par[1]
        group_by_col_name == InCols(d, node, 1)[nd.c1[1]].nm
        in_stored_with == d.n[parent].sw
        b == Len(d.n)
        shuffled == b + 1
        persisted == b + 2
        keys_closed == b + 3
        keys == b + 4
        indexed == b + 5
        sorted_by_key == b + 6
        eq_flags == b + 7
        sorted_by_key_dummy == b + 8
        closed_eq_flags == b + 9
        closed_sorted_by_key == b + 10
        result == b + 11
        d1 == Primitive(d, "Shuffle", parent, W.shuffled \o suffix, TRUE)
        d2 == RemoveChild(d1, parent, node)
        d3 == Primitive(d2, "Persist", shuffled, W.persisted \o suffix, TRUE)
        d4 == ProjectNamed(d3, shuffled, W.keys_closed \o suffix,
                           <<group_by_col_name>>, TRUE)
        d5 == OpenTo(d4, keys_closed, W.keys \o suffix, nd.tp)
        d6 == IndexOp(d5, keys, W.indexed \o suffix)
        d7 == Primitive(d6, "SortBy", indexed, W.sorted_by_key \o suffix, FALSE)
        d8 == Primitive(d7, "CompNeighs", sorted_by_key, W.eq_flags \o suffix, FALSE)
        d9 == ProjectNamed(d8, sorted_by_key, W.sorted_by_key_dummy \o suffix,
                           <<"row_index", group_by_col_name>>, FALSE)
        d10 == CloseTo(d9, eq_flags, W.closed_eq_flags \o suffix, in_stored_with)
        d11 == CloseTo(d10, sorted_by_key_dummy, W.closed_sorted_by_key \o suffix,
                       in_stored_with)
        \* cc.index_aggregate(persisted, node.out_rel.name, ..., closed_eq_flags,
        \*                    closed_sorted_by_key); result.is_mpc = True
        d12 == IF ~Ok(d11) THEN d11
               ELSE AddOp(d11, [NewNode("IndexAggregate", nd.name,
                                        <<persisted, closed_eq_flags, closed_sorted_by_key>>,
                                        d11.n[persisted].sw, nd.cols) EXCEPT
                                   !.c1 = nd.c1, !.tc = nd.tc, !.is_mpc = TRUE])
    IN  IF Len(nd.c1) = 0 THEN Raise(d, "IndexError")
        ELSE TakeChildren(d12, node, result)

Expand_rewrite_hybrid_aggregate(d, node, leaky, counter) ==
    IF leaky THEN Raise(d, "not implemented")
    ELSE Expand_rewrite_agg_non_leaky(d, node, counter)

Expand_rewrite_hybrid_join_non_leaky(d, node, counter) ==
    LET suffix == SufHybridJoin \o Digit(counter)
        nd == d.n[node]
        left_parent == nd.par[1]
        right_parent == nd.par[2]
        b == Len(d.n)
        left_shuffled == b + 1
        right_shuffled == b + 2
        left_persisted == b + 3
        right_persisted == b + 4
        left_keys_closed == b + 5
        right_keys_closed == b + 6
        left_keys_open == b + 7
        right_keys_open == b + 8
        left_dummy == b + 9
        right_dummy == b + 10
        flags == b + 11
        flags_closed == b + 12
        joined == b + 13
        d1 == RemoveChild(Primitive(d, "Shuffle", left_parent,
                                    W.left_shuffled \o suffix, TRUE),
                          left_parent, node)
        d2 == RemoveChild(Primitive(d1, "Shuffle", right_parent,
                                    W.right_shuffled \o suffix, TRUE),
                          right_parent, node)
        d3 == Primitive(d2, "Persist", left_shuffled, W.left_persisted \o suffix, TRUE)
        d4 == Primitive(d3, "Persist", right_shuffled, W.right_persisted \o suffix, TRUE)
        d5 == ProjectNamed(d4, left_shuffled, W.left_keys_closed \o suffix, <<"a">>, TRUE)
        d6 == ProjectNamed(d5, right_shuffled, W.right_keys_closed \o suffix, <<"c">>, TRUE)
        d7 == OpenTo(d6, left_keys_closed, W.left_keys_open \o suffix, nd.tp)
        d8 == OpenTo(d7, right_keys_closed, W.right_keys_open \o suffix, nd.tp)
        d9 == ProjectNamed(d8, left_keys_open, W.left_dummy \o suffix, <<"a">>, FALSE)
        d10 == ProjectNamed(d9, right_keys_open, W.right_dummy \o suffix, <<"c">>, FALSE)
        \* cc._join_flags(left_dummy, right_dummy, ..., ["a"], ["c"]); is_mpc = False
        d11 == IF ~Ok(d10) THEN d10
               ELSE AddOp(d10, [NewNode("JoinFlags", W.flags \o suffix,
                                        <<left_dummy, right_dummy>>,
                                        d10.n[left_dummy].sw \cup d10.n[right_dummy].sw,
                                        d10.n[left_dummy].cols) EXCEPT
                                   !.c1 = <<1>>, !.c2 = <<1>>])
        d12 == CloseTo(d11, flags, W.flags_closed \o suffix, {1, 2, 3})
        \* cc._flag_join(left_persisted, right_persisted, node.out_rel.name,
        \*               ["a"], ["c"], flags_closed): is_mpc is left as constructed
        d13 == IF ~Ok(d12) THEN d12
               ELSE LET lk == FindCol(d12.n[left_persisted].cols, "a")
                        rk == FindCol(d12.n[right_persisted].cols, "c")
                    IN  AddOp(d12, [NewNode("FlagJoin", nd.name,
                                            <<left_persisted, right_persisted, flags_closed>>,
                                            d12.n[left_persisted].sw
                                                \cup d12.n[right_persisted].sw,
                                            nd.cols) EXCEPT
                                       !.c1 = <<lk>>, !.c2 = <<rk>>])
    IN  TakeChildren(d13, node, joined)

Expand_rewrite_hybrid_join(d, node, leaky, counter) ==
    IF leaky THEN Raise(d, "not implemented")
    ELSE Expand_rewrite_hybrid_join_non_leaky(d, node, counter)

ExpandCompositeOpsVisit(d, node, leaky, jc, ac) ==
    LET k == d.n[node].kind
    IN  IF k \notin DispatchedKinds THEN Raise(d, "Unknown class")
        ELSE IF k = "HybridAggregate"
        THEN Expand_rewrite_hybrid_aggregate(d, node, leaky, ac + 1)
        ELSE IF k = "HybridJoin"
        THEN Expand_rewrite_hybrid_join(d, node, leaky, jc + 1)
        ELSE d

----------------------------------------------------------------------------
(* comp.py: StoredWithSimplifier                                           *)

\* the test is len(stored_with) >= 1
StoredWithSimplifierVisit_AnySize(d, node, parties) ==
    IF d.n[node].sw # {} THEN Set(d, node, "sw", parties) ELSE d

\* the pass dispatches on the kind of the node as the other passes do
StoredWithSimplifierVisit_Dispatching(d, node, parties) ==
    IF d.n[node].kind \notin DispatchedKinds THEN Raise(d, "Unknown class")
    ELSE IF Cardinality(d.n[node].sw) > 1 THEN Set(d, node, "sw", parties) ELSE d

StoredWithSimplifierVisit(d, node, parties) ==
    IF Cardinality(d.n[node].sw) > 1 THEN Set(d, node, "sw", parties) ELSE d

----------------------------------------------------------------------------
(* The input workflows: the protocols of src/test/test.py and variations   *)
(* of them, built with the DSL.                                            *)

N ==
    [in1 |-> <<105, 110, 49>>,
     in2 |-> <<105, 110, 50>>,
     inA |-> <<105, 110, 65>>,
     inB |-> <<105, 110, 66>>,
     rel |-> <<114, 101, 108>>,
     projA |-> <<112, 114, 111, 106, 65>>,
     projB |-> <<112, 114, 111, 106, 66>>,
     proj |-> <<112, 114, 111, 106>>,
     agg |-> <<97, 103, 103>>,
     joined |-> <<106, 111, 105, 110, 101, 100>>,
     div |-> <<100, 105, 118>>,
     mult |-> <<109, 117, 108, 116>>,
     comb |-> <<99, 111, 109, 98>>,
     projC |-> <<112, 114, 111, 106, 67>>]

Parties == {1, 2, 3}

EmptyDag == Dag(<<>>, "none", "asc")

\* the columns of an input relation of party p; x are further trusted parties
ColsAB(p, x) == <<Col("a", {p} \cup x), Col("b", {p} \cup x)>>

ColsCD(p, x) == <<Col("c", {p} \cup x), Col("d", {p} \cup x)>>

\* three columns whose trust sets differ: a is private to p
Cols3(p, x) == <<Col("a", {p}), Col("b", {p} \cup x), Col("e", {p} \cup x)>>

\* the largest party a workflow's result is collected to
MaxTarget == 1

\* collect(node, t) when a target party is given
Target(d, i, t) == IF t = 0 THEN d ELSE collect(d, i, t)

\* the unary operator of kind k on columns 1 and 2 of node in
UnaryOp(d, k, in, name) ==
    IF k = "Project" THEN project(d, in, name, <<1, 2>>)
    ELSE IF k = "Filter" THEN cc_filter(d, in, name, 1, 2)
    ELSE IF k = "Multiply" THEN multiply(d, in, name, 1, <<1, 2>>)
    ELSE IF k = "Divide" THEN divide(d, in, name, 1, <<1, 2>>)
    ELSE IF k = "Aggregate" THEN aggregate(d, in, name, <<1>>, 2)
    ELSE IF k = "Distinct" THEN distinct(d, in, name, <<1, 2>>)
    ELSE distinct_count(d, in, name, 1)

\* in1, in2 -> Concat rel -> a unary operator [-> Project], as testAgg and
\* testSingle; the last node is collected to party t
ConcatUnary(i) ==
    LET d2 == create(create(EmptyDag, N.in1, ColsAB(i.p1, i.x), {i.p1}),
                     N.in2, ColsAB(i.p2, i.x), {i.p2})
        d3 == concat(d2, <<1, 2>>, N.rel)
        d4 == UnaryOp(d3, i.kind, 3, N.projA)
    IN  IF i.tail THEN Target(project(d4, 4, N.projB, <<1>>), 5, i.t)
        ELSE Target(d4, 4, i.t)

\* in1, in2 -> Concat -> Aggregate -> Divide -> Project
ConcatAggDivide(i) ==
    LET d2 == create(create(EmptyDag, N.in1, ColsAB(i.p1, i.x), {i.p1}),
                     N.in2, ColsAB(i.p2, i.x), {i.p2})
        d3 == concat(d2, <<1, 2>>, N.rel)
        d4 == aggregate(d3, 3, N.agg, <<1>>, 2)
        d5 == divide(d4, 4, N.div, 1, <<1, 2>>)
    IN  Target(project(d5, 5, N.proj, <<1, 2>>), 6, i.t)

\* in1, in2 -> Concat -> two unary children, as testMultiple
ConcatFork(i) ==
    LET d2 == create(create(EmptyDag, N.in1, ColsAB(i.p1, i.x), {i.p1}),
                     N.in2, ColsAB(i.p2, i.x), {i.p2})
        d3 == concat(d2, <<1, 2>>, N.rel)
        d4 == UnaryOp(d3, i.kind, 3, N.projA)
        d5 == project(d4, 3, N.projB, <<1, 2>>)
    IN  IF i.tail THEN Target(project(d5, 4, N.proj, <<1>>), 6, i.t)
        ELSE Target(d5, 5, i.t)

\* inA, inB -> projA, projB -> Join -> [Project -> Aggregate], as testJoin
JoinChain(i) ==
    LET d2 == create(create(EmptyDag, N.inA, ColsAB(i.p1, i.x), {i.p1}),
                     N.inB, ColsCD(i.p2, i.x), {i.p2})
        d4 == project(project(d2, 1, N.projA, <<1, 2>>), 2, N.projB, <<1, 2>>)
        d5 == join(d4, 3, 4, N.joined, <<1>>, <<1>>)
    IN  IF i.kind = "Join" THEN Target(d5, 5, i.t)
        ELSE IF i.tail
        THEN Target(aggregate(project(d5, 5, N.proj, <<1, 2>>), 6, N.agg, <<1>>, 2), 7, i.t)
        ELSE Target(UnaryOp(d5, i.kind, 5, N.proj), 6, i.t)

\* in1, in2 -> Concat -> Multiply or Divide whose target is the second
\* column [-> Project]
ConcatLinear(i) ==
    LET d2 == create(create(EmptyDag, N.in1, Cols3(i.p1, i.x), {i.p1}),
                     N.in2, Cols3(i.p2, i.x), {i.p2})
        d3 == concat(d2, <<1, 2>>, N.rel)
        d4 == IF i.kind = "Multiply" THEN multiply(d3, 3, N.mult, 2, <<1, 2>>)
              ELSE divide(d3, 3, N.div, 2, <<1, 2>>)
    IN  IF i.tail THEN Target(project(d4, 4, N.proj, <<1, 2>>), 5, i.t)
        ELSE Target(d4, 4, i.t)

\* inA, inB -> Join on two key pairs [-> Project]
JoinTwoKeys(i) ==
    LET d2 == create(create(EmptyDag, N.inA, Cols3(i.p1, i.x), {i.p1}),
                     N.inB, Cols3(i.p2, i.x), {i.p2})
        d3 == join(d2, 1, 2, N.joined, <<1, 2>>, <<1, 2>>)
    IN  IF i.tail THEN Target(project(d3, 3, N.proj, <<1, 2, 3>>), 4, i.t)
        ELSE Target(d3, 3, i.t)

\* in1, in2 -> ConcatCols [-> Project]
ConcatColsFlow(i) ==
    LET d2 == create(create(EmptyDag, N.in1, ColsAB(i.p1, i.x), {i.p1}),
                     N.in2, ColsCD(i.p2, i.x), {i.p2})
        d3 == concat_cols(d2, <<1, 2>>, N.comb)
    IN  IF i.tail THEN Target(project(d3, 3, N.proj, <<1, 2>>), 4, i.t)
        ELSE Target(d3, 3, i.t)

\* a workflow that already holds a hybrid operator
HybridInput(i) ==
    LET d == JoinChain([i EXCEPT !.kind = "Aggregate", !.tail = FALSE])
    IN  IF i.kind = "HybridJoin"
        THEN [d EXCEPT !.n[5].kind = "HybridJoin", !.n[5].tp = 1, !.n[5].is_mpc = TRUE]
        ELSE [d EXCEPT !.n[6].kind = "HybridAggregate", !.n[6].tp = 1, !.n[6].is_mpc = TRUE]

\* inA, inB -> Join -> a Project that is collected to party t, and a second
\* Project; the Join and the second Project -> Concat -> Project -> Project.
\* The collected Project sorts before the second one (tail) or after it.
SharedParent(i) ==
    LET d2 == create(create(EmptyDag, N.inA, ColsAB(i.p1, i.x), {i.p1}),
                     N.inB, ColsCD(i.p2, i.x), {i.p2})
        d3 == join(d2, 1, 2, N.joined, <<1>>, <<1>>)
        d4 == project(d3, 3, IF i.tail THEN N.proj ELSE N.projA, <<1, 2>>)
        d5 == project(d4, 3, IF i.tail THEN N.projA ELSE N.proj, <<1, 2>>)
        d6 == concat(d5, <<3, 5>>, N.rel)
        d7 == project(d6, 6, N.projB, <<1, 2>>)
    IN  Target(project(d7, 7, N.projC, <<1, 2>>), 4, i.t)

\* in1, in2 -> Concat -> Project -> Project -> Project: a chain of unary
\* operators below the Concat, the first of kind i.kind
ConcatChain(i) ==
    LET d2 == create(create(EmptyDag, N.in1, ColsAB(i.p1, i.x), {i.p1}),
                     N.in2, ColsAB(i.p2, i.x), {i.p2})
        d3 == concat(d2, <<1, 2>>, N.rel)
        d4 == UnaryOp(d3, i.kind, 3, N.projA)
        d5 == project(d4, 4, N.projB, <<1, 2>>)
    IN  IF i.tail THEN Target(project(d5, 5, N.projC, <<1>>), 6, i.t)
        ELSE Target(distinct(d5, 5, N.projC, <<1>>), 6, i.t)

\* in1, in2 -> Concat -> three unary children, the first of kind i.kind
ConcatFork3(i) ==
    LET d2 == create(create(EmptyDag, N.in1, ColsAB(i.p1, i.x), {i.p1}),
                     N.in2, ColsAB(i.p2, i.x), {i.p2})
        d3 == concat(d2, <<1, 2>>, N.rel)
        d4 == UnaryOp(d3, i.kind, 3, IF i.tail THEN N.projA ELSE N.projC)
        d5 == project(d4, 3, N.projB, <<1, 2>>)
        d6 == project(d5, 3, IF i.tail THEN N.projC ELSE N.projA, <<1>>)
    IN  Target(d6, 4, i.t)

\* in1, in2 -> Concat -> a Project with two children, or an Aggregate grouped
\* by two columns [-> Project]
ConcatWide(i) ==
    LET d2 == create(create(EmptyDag, N.in1, Cols3(i.p1, i.x), {i.p1}),
                     N.in2, Cols3(i.p2, i.x), {i.p2})
        d3 == concat(d2, <<1, 2>>, N.rel)
    IN  IF i.kind = "Project"
        THEN LET d4 == project(d3, 3, N.projA, <<1, 2, 3>>)
                 d5 == project(d4, 4, N.projB, <<1, 2>>)
                 d6 == IF i.tail THEN project(d5, 4, N.projC, <<1>>)
                       ELSE cc_filter(d5, 4, N.projC, 1, 2)
             IN  Target(d6, 5, i.t)
        ELSE LET d4 == aggregate(d3, 3, N.agg, <<1, 2>>, 3)
             IN  IF i.tail THEN Target(project(d4, 4, N.proj, <<1, 2>>), 5, i.t)
                 ELSE Target(d4, 4, i.t)

\* inputs that break the builder's contract: two relations of one name, a
\* relation stored with nobody, an edge recorded at its child only
Malformed(i) ==
    LET d == ConcatUnary([i EXCEPT !.kind = "Project", !.tail = FALSE])
    IN  IF i.kind = "DuplicateName" THEN [d EXCEPT !.n[2].name = N.in1]
        ELSE IF i.kind = "EmptyStoredWith" THEN [d EXCEPT !.n[4].sw = {}]
        ELSE [d EXCEPT !.n[3].children = {}]

BuildInput(i) ==
    IF i.shape = "ConcatUnary" THEN ConcatUnary(i)
    ELSE IF i.shape = "ConcatAggDivide" THEN ConcatAggDivide(i)
    ELSE IF i.shape = "ConcatFork" THEN ConcatFork(i)
    ELSE IF i.shape = "JoinChain" THEN JoinChain(i)
    ELSE IF i.shape = "ConcatCols" THEN ConcatColsFlow(i)
    ELSE IF i.shape = "ConcatLinear" THEN ConcatLinear(i)
    ELSE IF i.shape = "JoinTwoKeys" THEN JoinTwoKeys(i)
    ELSE IF i.shape = "HybridInput" THEN HybridInput(i)
    ELSE IF i.shape = "SharedParent" THEN SharedParent(i)
    ELSE IF i.shape = "ConcatChain" THEN ConcatChain(i)
    ELSE IF i.shape = "ConcatFork3" THEN ConcatFork3(i)
    ELSE IF i.shape = "ConcatWide" THEN ConcatWide(i)
    ELSE Malformed(i)

UnaryShapeKinds ==
    {"Project", "Filter", "Multiply", "Divide", "Aggregate", "Distinct", "DistinctCount"}

InputOf(shape, kinds) ==
    [shape : {shape}, kind : kinds, p1 : {1}, p2 : {1, 2}, x : {{}, {3}, {2, 3}, {1, 3}},
     t : 0..MaxTarget, tail : BOOLEAN]

Inputs ==
    InputOf("ConcatUnary", UnaryShapeKinds)
    \cup InputOf("ConcatAggDivide", {"Divide"})
    \cup InputOf("ConcatFork", {"Project", "Aggregate"})
    \cup InputOf("JoinChain", {"Join", "Project", "Aggregate"})
    \cup InputOf("ConcatCols", {"ConcatCols"})
    \cup InputOf("ConcatLinear", {"Multiply", "Divide"})
    \cup InputOf("JoinTwoKeys", {"Join"})
    \cup InputOf("HybridInput", {"HybridJoin", "HybridAggregate"})
    \cup InputOf("SharedParent", {"Project"})
    \cup InputOf("ConcatChain", {"Project", "Filter", "Multiply"})
    \cup InputOf("ConcatFork3", {"Project", "Aggregate"})
    \cup InputOf("ConcatWide", {"Project", "Aggregate"})
    \cup InputOf("Malformed", {"DuplicateName", "EmptyStoredWith", "DanglingEdge"})

\* the root set handed to OpDag: the Create nodes
RootsOf(n) == {i \in 1..Len(n) : n[i].kind = "Create"}

----------------------------------------------------------------------------
(* comp.py: rewrite_dag and DagRewriter.rewrite                            *)

PassNames == <<"MPCPushDown", "UpdateColumns", "MPCPushUp", "TrustSetPropDown",
               "HybridOperatorOpt", "InsertOpenAndCloseOps", "ExpandCompositeOps",
               "StoredWithSimplifier">>

NumPasses == Len(PassNames)

Init ==
    /\ input \in Inputs
    /\ nodes = BuildInput(input).n
    /\ roots = RootsOf(nodes)
    /\ pass = 0
    /\ todo = <<>>
    /\ err = "none"
    /\ visited = <<>>
    /\ join_counter = 0
    /\ agg_counter = 0
    /\ all_parties \in {{1, 2, 3}, {1, 2}}
    /\ use_leaky_ops \in BOOLEAN
    /\ iter_order \in {"asc", "desc"}
    /\ pre = nodes

\* ordered = dag.top_sort(), reversed when self.reverse
Ordered(n, r, p) ==
    IF PassNames[p] = "MPCPushUp" THEN Reverse(top_sort(n, r)) ELSE top_sort(n, r)

\* the next pass starts although the one before raised
BeginPass_AfterRaise ==
    /\ todo = <<>> \/ err # "none"
    /\ pass < NumPasses
    /\ pass' = pass + 1
    /\ todo' = Ordered(nodes, roots, pass + 1)
    /\ pre' = nodes
    /\ err' = "none"
    /\ UNCHANGED <<nodes, roots, visited, join_counter, agg_counter,
                   all_parties, use_leaky_ops, iter_order, input>>

\* the next pass of rewrite_dag starts once the one before has visited all
\* of its nodes without raising
BeginPass ==
    /\ err = "none"
    /\ todo = <<>>
    /\ pass < NumPasses
    /\ pass' = pass + 1
    /\ todo' = Ordered(nodes, roots, pass + 1)
    /\ pre' = nodes
    /\ UNCHANGED <<nodes, roots, err, visited, join_counter, agg_counter,
                   all_parties, use_leaky_ops, iter_order, input>>

Now == Dag(nodes, "none", iter_order)

\* one iteration of the loop of rewrite(): the node is logged, then rewritten
Visit(name, d) ==
    /\ err = "none"
    /\ pass >= 1 /\ pass <= NumPasses
    /\ PassNames[pass] = name
    /\ todo # <<>>
    /\ nodes' = d.n
    /\ err' = d.err
    /\ todo' = Tail(todo)
    /\ visited' = Append(visited, <<name, Head(todo)>>)
    /\ UNCHANGED <<roots, pass, all_parties, use_leaky_ops, iter_order, input, pre>>

MPCPushDownStep ==
    /\ Visit("MPCPushDown", MPCPushDownVisit(Now, Head(todo)))
    /\ UNCHANGED <<join_counter, agg_counter>>

UpdateColumnsStep ==
    /\ Visit("UpdateColumns", UpdateColumnsVisit(Now, Head(todo)))
    /\ UNCHANGED <<join_counter, agg_counter>>

MPCPushUpStep ==
    /\ Visit("MPCPushUp", MPCPushUpVisit(Now, Head(todo)))
    /\ UNCHANGED <<join_counter, agg_counter>>

TrustSetPropDownStep ==
    /\ Visit("TrustSetPropDown", TrustSetPropDownVisit(Now, Head(todo)))
    /\ UNCHANGED <<join_counter, agg_counter>>

HybridOperatorOptStep ==
    /\ Visit("HybridOperatorOpt", HybridOperatorOptVisit(Now, Head(todo)))
    /\ UNCHANGED <<join_counter, agg_counter>>

InsertOpenAndCloseOpsStep ==
    /\ Visit("InsertOpenAndCloseOps", InsertOpenAndCloseOpsVisit(Now, Head(todo)))
    /\ UNCHANGED <<join_counter, agg_counter>>

\* _create_unique_join_suffix / _create_unique_agg_suffix count the expansions
ExpandCompositeOpsStep ==
    /\ Visit("ExpandCompositeOps",
             ExpandCompositeOpsVisit(Now, Head(todo), use_leaky_ops,
                                     join_counter, agg_counter))
    /\ join_counter' = IF nodes[Head(todo)].kind = "HybridJoin" /\ ~use_leaky_ops
                       THEN join_counter + 1 ELSE join_counter
    /\ agg_counter' = IF nodes[Head(todo)].kind = "HybridAggregate" /\ ~use_leaky_ops
                      THEN agg_counter + 1 ELSE agg_counter

StoredWithSimplifierStep ==
    /\ Visit("StoredWithSimplifier",
             StoredWithSimplifierVisit(Now, Head(todo), all_parties))
    /\ UNCHANGED <<join_counter, agg_counter>>

\* return dag
Return ==
    /\ err = "none"
    /\ pass = NumPasses
    /\ todo = <<>>
    /\ pass' = NumPasses + 1
    /\ UNCHANGED <<nodes, roots, todo, err, visited, join_counter, agg_counter,
                   all_parties, use_leaky_ops, iter_order, input, pre>>

Next ==
    \/ BeginPass
    \/ MPCPushDownStep
    \/ UpdateColumnsStep
    \/ MPCPushUpStep
    \/ TrustSetPropDownStep
    \/ HybridOperatorOptStep
    \/ InsertOpenAndCloseOpsStep
    \/ ExpandCompositeOpsStep
    \/ StoredWithSimplifierStep
    \/ Return

Spec == Init /\ [][Next]_vars

----------------------------------------------------------------------------
(* rewrite_dag as a function of its arguments: the passes in order, each   *)
(* over the topological order computed when it starts, stopping at the     *)
(* first exception.  r.d is the DAG, r.jc and r.ac the two counters.       *)

PassVisit(r, p, node, leaky, parties) ==
    LET name == PassNames[p]
        d == IF name = "MPCPushDown" THEN MPCPushDownVisit(r.d, node)
             ELSE IF name = "UpdateColumns" THEN UpdateColumnsVisit(r.d, node)
             ELSE IF name = "MPCPushUp" THEN MPCPushUpVisit(r.d, node)
             ELSE IF name = "TrustSetPropDown" THEN TrustSetPropDownVisit(r.d, node)
             ELSE IF name = "HybridOperatorOpt" THEN HybridOperatorOptVisit(r.d, node)
             ELSE IF name = "InsertOpenAndCloseOps"
             THEN InsertOpenAndCloseOpsVisit(r.d, node)
             ELSE IF name = "ExpandCompositeOps"
             THEN ExpandCompositeOpsVisit(r.d, node, leaky, r.jc, r.ac)
             ELSE StoredWithSimplifierVisit(r.d, node, parties)
        expands == name = "ExpandCompositeOps" /\ ~leaky
    IN  [d |-> d,
         jc |-> IF expands /\ r.d.n[node].kind = "HybridJoin" THEN r.jc + 1 ELSE r.jc,
         ac |-> IF expands /\ r.d.n[node].kind = "HybridAggregate" THEN r.ac + 1 ELSE r.ac]

RECURSIVE RunNodes(_, _, _, _, _)
RunNodes(r, p, ordered, leaky, parties) ==
    IF ~Ok(r.d) \/ Len(ordered) = 0 THEN r
    ELSE RunNodes(PassVisit(r, p, ordered[1], leaky, parties), p, Tail(ordered),
                  leaky, parties)

RECURSIVE RunPasses(_, _, _, _)
RunPasses(r, p, leaky, parties) ==
    IF ~Ok(r.d) \/ p > NumPasses THEN r
    ELSE RunPasses(RunNodes(r, p, Ordered(r.d.n, RootsOf(r.d.n), p), leaky, parties),
                   p + 1, leaky, parties)

\* X().rewrite(dag) for the rewriter of pass p, on its own
RunPass(d, p) ==
    RunNodes([d |-> d, jc |-> 0, ac |-> 0], p, Ordered(d.n, RootsOf(d.n), p),
             FALSE, Parties).d

rewrite_dag(i, parties, leaky, order) ==
    RunPasses([d |-> Dag(BuildInput(i).n, "none", order), jc |-> 0, ac |-> 0],
              1, leaky, parties).d

----------------------------------------------------------------------------
(* Properties of the pipeline                                              *)

\* pass number p has visited all of its nodes and none of them raised
PassDone(p) == pass = p /\ todo = <<>> /\ err = "none"

\* the nodes of the DAG: those reachable from the roots
Live == DagNodes(nodes, roots)

Edges == {e \in Live \X Live : e[2] \in nodes[e[1]].children}

\* the contract of the builder (spec section 7, MalformedInput)
DuplicateNames(n) ==
    \E i, j \in 1..Len(n) : i # j /\ n[i].name = n[j].name

DanglingEdges(n) ==
    \E i, j \in 1..Len(n) : (j \in n[i].children) # (i \in n[j].parents)

EmptyStoredWith(n) == \E i \in 1..Len(n) : n[i].sw = {}

WellFormed(n) == ~DuplicateNames(n) /\ ~DanglingEdges(n) /\ ~EmptyStoredWith(n)

WellFormedInput == WellFormed(BuildInput(input).n)

EndKinds(e) == {nodes[e[1]].kind, nodes[e[2]].kind}

\* a local -> MPC edge has a Close at one end, an MPC -> local edge an Open
Mediated(e) ==
    /\ (~nodes[e[1]].is_mpc /\ nodes[e[2]].is_mpc) => "Close" \in EndKinds(e)
    /\ (nodes[e[1]].is_mpc /\ ~nodes[e[2]].is_mpc) => "Open" \in EndKinds(e)

\* C1: for a well-formed input, once InsertOpenAndCloseOps has completed,
\* every edge from a local node to an MPC node has a Close as an endpoint
\* and every edge from an MPC node to a local node has an Open as an endpoint.
C1_BoundariesMediated ==
    (WellFormedInput /\ PassDone(6)) => \A e \in Edges : Mediated(e)

HybridKinds == {"HybridJoin", "HybridAggregate"}

\* C2: once ExpandCompositeOps has completed, no node reachable from the
\* roots is a HybridJoin or a HybridAggregate, and no reachable node names
\* one among its parents or its children.
C2_NoHybridAfterExpand ==
    PassDone(7) =>
        \A i \in Live :
            /\ nodes[i].kind \notin HybridKinds
            /\ \A q \in nodes[i].parents \cup nodes[i].children :
                   nodes[q].kind \notin HybridKinds

\* a run in which pass J expanded a hybrid join and a hybrid aggregate
C2_BothExpanded == PassDone(7) /\ join_counter > 0 /\ agg_counter > 0

\* node i as StoredWithSimplifier is to leave it
Simplified(nd) ==
    [nd EXCEPT !.sw = IF Cardinality(nd.sw) > 1 THEN all_parties ELSE nd.sw]

EdgeSymmetric ==
    \A i \in Live :
        /\ \A c \in nodes[i].children : i \in nodes[c].parents
        /\ \A q \in nodes[i].parents : i \in nodes[q].children

Acyclic == \A i \in Live : i \notin ReachFrom(nodes, nodes[i].children, Len(nodes))

\* C4: for a well-formed input, whenever one of the eight passes has
\* completed the DAG is acyclic and edge-symmetric.
C4_AcyclicSymmetric ==
    (WellFormedInput /\ \E p \in 1..NumPasses : PassDone(p)) =>
        EdgeSymmetric /\ Acyclic

\* MPCPushDown forked a Concat, HybridOperatorOpt replaced an operator, and
\* ExpandCompositeOps handed children to the leaf of an expansion
C4_Restructured ==
    /\ WellFormedInput /\ PassDone(7)
    /\ \E i \in Live : nodes[i].kind \in {"FlagJoin", "IndexAggregate"}
                         /\ nodes[i].children # {}
    /\ \E i \in Live : nodes[i].kind = "Concat" /\ nodes[i].name = N.rel \o SufIdx(1)

\* the input columns that contribute to output column k of node i
Contributors(i, k) ==
    LET nd == nodes[i]
        in_cols == InCols(Now, i, 1)
        right_cols == InCols(Now, i, 2)
        nkeys == Len(nd.c1)
        nleft == Len(in_cols) - nkeys
        lo == OtherIdxs(Len(in_cols), nd.c1, 1)
        ro == OtherIdxs(Len(right_cols), nd.c2, 1)
        keys == {in_cols[nd.c1[j]] : j \in 1..nkeys}
                \cup {right_cols[nd.c2[j]] : j \in 1..Len(nd.c2)}
    IN  IF nd.kind = "Project" THEN {in_cols[nd.c1[k]]}
        ELSE IF nd.kind = "Filter"
        THEN {in_cols[k]} \cup {in_cols[nd.c1[j]] : j \in 1..Len(nd.c1)}
        ELSE IF nd.kind \in {"Multiply", "Divide"}
        THEN IF k = nd.tc THEN {in_cols[nd.c1[j]] : j \in 1..Len(nd.c1)} ELSE {}
        ELSE IF nd.kind = "Aggregate"
        THEN {in_cols[nd.c1[j]] : j \in 1..Len(nd.c1)}
             \cup (IF k = Len(nd.cols) THEN {in_cols[nd.tc]} ELSE {})
        ELSE IF nd.kind = "Join"
        THEN IF k <= nkeys THEN {in_cols[nd.c1[k]], right_cols[nd.c2[k]]}
             ELSE IF k <= nkeys + nleft THEN keys \cup {in_cols[lo[k - nkeys]]}
             ELSE keys \cup {right_cols[ro[k - nkeys - nleft]]}
        ELSE IF nd.kind = "Concat"
        THEN {nodes[q].cols[k] : q \in nd.parents}
        ELSE {}

Monotone(i) ==
    \A k \in 1..Len(nodes[i].cols) :
        \A c \in Contributors(i, k) : nodes[i].cols[k].ts \subseteq c.ts

\* C5: for a well-formed input, once TrustSetPropDown has completed, the
\* trust set of every output column of every Project, Filter, Multiply,
\* Divide, Aggregate, Join and Concat node is a subset of the trust set of
\* every input column that contributes to it.
C5_TrustMonotone ==
    (WellFormedInput /\ PassDone(4)) => \A i \in Live : Monotone(i)

Documented == <<"MPCPushDown", "UpdateColumns", "MPCPushUp", "TrustSetPropDown",
                "HybridOperatorOpt", "InsertOpenAndCloseOps", "ExpandCompositeOps",
                "StoredWithSimplifier">>

\* one step of a run that keeps the documented order
InOrder ==
    /\ err = "none"
    /\ pass' # pass => (todo = <<>> /\ pass' = pass + 1)
    /\ visited' # visited =>
           /\ pass \in 1..Len(Documented)
           /\ todo # <<>>
           /\ visited' = Append(visited, <<Documented[pass], Head(todo)>>)
           /\ todo' = Tail(todo)
    /\ todo' # todo => (pass' # pass \/ visited' # visited)

\* C6: the passes run in the order MPCPushDown, UpdateColumns, MPCPushUp,
\* TrustSetPropDown, HybridOperatorOpt, InsertOpenAndCloseOps,
\* ExpandCompositeOps, StoredWithSimplifier; a pass begins only when the one
\* before has visited every node of its ordering; and once a pass has raised
\* nothing happens any more: no node is visited and no pass begins.
C6_PassOrder == [][InOrder]_vars

\* a pass before the last raised while nodes of its ordering were still to
\* be visited
C6_Aborted == err # "none" /\ pass < NumPasses /\ todo # <<>> /\ Len(visited) > 1

Ended == err # "none" \/ pass = NumPasses + 1

\* the run on the same arguments that iterates every set in ascending order
Reference == rewrite_dag(input, all_parties, use_leaky_ops, "asc")

\* C7: a run ends as the run on the same input that iterates the unordered
\* sets in ascending order ends, whatever order this run iterates them in:
\* with the same nodes (names, kinds, edges, is_mpc flags, stored-with and
\* trust sets), or with the same exception.
C7_Deterministic ==
    Ended => /\ err = Reference.err
             /\ err = "none" => nodes = Reference.n

\* a run that iterated sets in descending order has returned, after choosing
\* the trusted party of a hybrid operator among several parties
C7_OrderMattered ==
    /\ pass = NumPasses + 1 /\ iter_order = "desc"
    /\ \E i \in 1..Len(nodes) :
           nodes[i].kind \in HybridKinds /\ Cardinality(nodes[i].cols[1].ts) > 1

\* C8: an input with duplicate relation names, a dangling edge or an empty
\* stored-with set is rejected with MalformedInput before any pass visits or
\* changes a node.
C8_InputValidated ==
    ~WellFormedInput =>
        /\ visited = <<>>
        /\ nodes = BuildInput(input).n
        /\ pass > 0 => err = "MalformedInput"

RejectingPasses == {"MPCPushDown", "MPCPushUp", "TrustSetPropDown", "HybridOperatorOpt"}

\* C9: when MPCPushDown, MPCPushUp, TrustSetPropDown or HybridOperatorOpt
\* visits a HybridJoin or a HybridAggregate, the visit raises and is the last
\* visit of the run.
C9_HybridRejected ==
    \A k \in 1..Len(visited) :
        (visited[k][1] \in RejectingPasses
         /\ nodes[visited[k][2]].kind \in HybridKinds)
        => (k = Len(visited) /\ err # "none")

\* every relation of the input is stored with the same one party, and the
\* input holds no Close, Open or hybrid operator and no node tagged MPC
SinglePartyInput ==
    LET n == BuildInput(input).n
    IN  /\ WellFormedInput
        /\ \E p \in Parties : \A i \in 1..Len(n) : n[i].sw = {p}
        /\ \A i \in 1..Len(n) :
               n[i].kind \notin {"Close", "Open"} \cup HybridKinds /\ ~n[i].is_mpc

SameStructure ==
    /\ Len(nodes) = Len(pre)
    /\ \A i \in 1..Len(nodes) :
           nodes[i].parents = pre[i].parents /\ nodes[i].children = pre[i].children

\* C10: on a single-party workflow no node of the DAG is tagged MPC when a
\* pass has completed, and InsertOpenAndCloseOps and ExpandCompositeOps leave
\* the nodes and the edges as they found them.
C10_SinglePartyLocal ==
    SinglePartyInput =>
        \A p \in 1..NumPasses :
            PassDone(p) =>
                /\ \A i \in Live : ~nodes[i].is_mpc
                /\ p \in {6, 7} => SameStructure

\* the nodes of a DAG reachable from its Create nodes
LiveOf(n) == DagNodes(n, RootsOf(n))

NoBoundaryConcat(n) ==
    \A i \in LiveOf(n) : n[i].kind = "Concat" => ~is_boundary(Dag(n, "none", "asc"), i)

\* the structure of a DAG: its nodes by name and kind, its edges by name
Structure(n) ==
    [nds |-> {<<n[i].name, n[i].kind>> : i \in LiveOf(n)},
     eds |-> UNION {{<<n[i].name, n[c].name>> : c \in n[i].children} : i \in LiveOf(n)}]

\* MPCPushUp().rewrite(dag) followed by MPCPushDown().rewrite(dag)
UpThenDown(n) == RunPass(RunPass(Dag(n, "none", iter_order), 3), 1)

\* C11: on the DAG a pass of a well-formed run has left, if no Concat of it
\* is a boundary (its parents have differing stored-with sets), MPCPushUp
\* followed by MPCPushDown leaves the nodes (names, kinds) and the edges as
\* they are.
C11_UpDownKeepsStructure ==
    (WellFormedInput /\ todo = <<>> /\ err = "none" /\ NoBoundaryConcat(nodes))
        => Structure(UpThenDown(nodes).n) = Structure(nodes)

\* rewrite_dag has returned the rewritten DAG
Returned == pass = NumPasses + 1

\* scenario S3: inA{1} and inB{2}, each projected, joined on the first column,
\* projected, aggregated, the result collected to party 1
S3Input ==
    /\ input.shape = "JoinChain" /\ input.kind = "Project" /\ input.tail
    /\ input.p1 = 1 /\ input.p2 = 2 /\ input.x = {} /\ input.t = 1

\* the nodes of the DAG that carry relation name nm
Named(nm) == {i \in Live : nodes[i].name = nm}

The(nm) == CHOOSE i \in Named(nm) : TRUE

\* the DAG of scenario S3 as rewritten, with the Closes stored with close_sw
S3Shape(close_sw) ==
    /\ \A nm \in {N.projA, N.projB, N.joined, N.proj, N.agg} : Cardinality(Named(nm)) = 1
    /\ LET pa == The(N.projA)
           pb == The(N.projB)
           j == The(N.joined)
           pr == The(N.proj)
           ag == The(N.agg)
           side == <<pa, pb>>
       IN  /\ nodes[pa].kind = "Project" /\ ~nodes[pa].is_mpc /\ nodes[pa].sw = {1}
           /\ nodes[pb].kind = "Project" /\ ~nodes[pb].is_mpc /\ nodes[pb].sw = {2}
           /\ nodes[j].kind = "Join" /\ nodes[j].is_mpc /\ Len(nodes[j].par) = 2
           /\ nodes[j].parents = Range(nodes[j].par)
           /\ \A k \in 1..2 :
                  LET c == nodes[j].par[k]
                  IN  /\ nodes[c].kind = "Close" /\ nodes[c].is_mpc
                      /\ nodes[c].name = nodes[side[k]].name \o SufClose
                      /\ nodes[c].sw = close_sw
                      /\ nodes[c].parents = {side[k]} /\ nodes[c].children = {j}
                      /\ nodes[side[k]].children = {c}
           /\ nodes[pr].kind = "Project" /\ nodes[pr].is_mpc /\ nodes[pr].parents = {j}
           /\ nodes[ag].kind = "Aggregate" /\ nodes[ag].is_mpc /\ nodes[ag].parents = {pr}
           /\ \E o \in Live :
                  /\ nodes[ag].children = {o} /\ nodes[o].parents = {ag}
                  /\ nodes[o].kind = "Open" /\ nodes[o].is_mpc
                  /\ nodes[o].sw = {1} /\ nodes[o].children = {}

AggUnderBoundaryConcat(n, a) ==
    /\ n[a].kind = "Aggregate" /\ Len(n[a].c1) = 1 /\ Len(n[a].par) = 1
    /\ n[n[a].par[1]].kind = "Concat"
    /\ is_boundary(Dag(n, "none", "asc"), n[a].par[1])

\* DAG n1 holds the split of Aggregate a of DAG n0: local copies <a>_i between
\* the i-th sorted parent of the Concat and the Concat, stored where that
\* parent is; the Concat MPC, with the MPC Aggregate <a>_obl (group column 0,
\* aggregated column 1) as its only child; the child of a below <a>_obl
SplitOf(n0, n1, a) ==
    LET c == n0[a].par[1]
        ps == SortByName(n0, n0[c].parents)
        copy(i) == {q \in LiveOf(n1) : n1[q].name = n0[a].name \o SufIdx(i - 1)}
    IN  /\ \A i \in 1..Len(ps) :
               /\ Cardinality(copy(i)) = 1
               /\ \A q \in copy(i) :
                      /\ n1[q].kind = "Aggregate" /\ ~n1[q].is_mpc
                      /\ n1[q].parents = {ps[i]} /\ n1[q].children = {c}
                      /\ q \in n1[ps[i]].children /\ c \notin n1[ps[i]].children
                      /\ n1[q].sw = n1[ps[i]].sw
        /\ n1[c].kind = "Concat" /\ n1[c].is_mpc
        /\ n1[c].parents = UNION {copy(i) : i \in 1..Len(ps)}
        /\ \E o \in LiveOf(n1) :
               /\ n1[c].children = {o} /\ n1[o].parents = {c}
               /\ n1[o].name = n0[a].name \o SufObl
               /\ n1[o].kind = "Aggregate" /\ n1[o].is_mpc
               /\ n1[o].c1 = <<1>> /\ n1[o].tc = 2
               /\ n1[o].children = n0[a].children
               /\ \A x \in n0[a].children : n1[x].parents = {o}

\* C13 as stated: once MPCPushDown has completed, every Aggregate of the
\* input with one group column whose single parent is a boundary Concat that
\* requires MPC is split: k local copies <agg>_0 .. <agg>_(k-1) sit between
\* the Concat's sorted parents and the Concat, the Concat is MPC and its only
\* child is the MPC Aggregate <agg>_obl, whose child is the child the
\* Aggregate had.
C13_SplitWhenPassDone ==
    (WellFormedInput /\ PassDone(1)) =>
        \A a \in LiveOf(pre) :
            (AggUnderBoundaryConcat(pre, a)
             /\ requires_mpc(Dag(pre, "none", "asc"), pre[a].par[1]))
            => SplitOf(pre, nodes, a)

\* C13 (amended): the same holds of the DAG as it is right after MPCPushDown
\* has visited the Aggregate, whose parent Concat is MPC and a boundary at
\* that moment; the visit raises nothing.
C13_SplitWhenVisited ==
    [][(/\ WellFormedInput /\ pass = 1 /\ visited' # visited
        /\ AggUnderBoundaryConcat(nodes, Head(todo))
        /\ nodes[nodes[Head(todo)].par[1]].is_mpc)
       => (err' = "none" /\ SplitOf(nodes, nodes', Head(todo)))]_vars

\* MPCPushDown has split an Aggregate that had a child
C13_SplitDone ==
    /\ WellFormedInput /\ pass = 1
    /\ \E o \in Live : /\ nodes[o].name = N.projA \o SufObl
                        /\ nodes[o].is_mpc /\ nodes[o].children # {}

PushedKinds == {"Project", "Filter", "Multiply", "Divide", "DistinctCount"}

\* node u of DAG n is a unary node of a pushed kind whose single parent is an
\* MPC Concat with parents of differing stored-with sets
UnaryUnderBoundaryConcat(n, u) ==
    /\ n[u].kind \in PushedKinds /\ Len(n[u].par) = 1
    /\ n[n[u].par[1]].kind = "Concat" /\ n[n[u].par[1]].is_mpc
    /\ is_boundary(Dag(n, "none", "asc"), n[u].par[1])

\* DAG n1 is DAG n0 with u pushed above its parent Concat: u is gone, a local
\* copy <u>_i is the only node between the i-th sorted parent of the Concat
\* and the Concat, stored where that parent is; the Concat is MPC and has the
\* children u had
PushedAbove(n0, n1, u) ==
    LET c == n0[u].par[1]
        ps == SortByName(n0, n0[c].parents)
        copy(i) == {q \in LiveOf(n1) : n1[q].name = n0[u].name \o SufIdx(i - 1)}
    IN  /\ u \notin LiveOf(n1)
        /\ \A i \in 1..Len(ps) :
               /\ Cardinality(copy(i)) = 1
               /\ \A q \in copy(i) :
                      /\ n1[q].kind = n0[u].kind /\ ~n1[q].is_mpc
                      /\ n1[q].parents = {ps[i]} /\ n1[q].children = {c}
                      /\ q \in n1[ps[i]].children /\ c \notin n1[ps[i]].children
                      /\ n1[q].sw = n0[ps[i]].sw
        /\ n1[c].kind = "Concat" /\ n1[c].is_mpc
        /\ n1[c].parents = UNION {copy(i) : i \in 1..Len(ps)}
        /\ n1[c].children = n0[u].children
        /\ \A x \in n0[u].children : n1[x].parents = {c}

ChainPushed ==
    (input.shape = "ConcatChain" /\ input.p2 = 2 /\ PassDone(1)) =>
        \A i \in 0..1 :
            /\ Cardinality(Named(N.projA \o SufIdx(i))) = 1
            /\ Cardinality(Named(N.projB \o SufIdx(i))) = 1
            /\ nodes[The(N.projB \o SufIdx(i))].parents = {The(N.projA \o SufIdx(i))}
            /\ nodes[The(N.projB \o SufIdx(i))].children = {The(N.rel)}
            /\ nodes[The(N.rel)].children = {The(N.projC)}

Concats(n) == {q \in LiveOf(n) : n[q].kind = "Concat"}

\* DAG n1 is DAG n0 with Concat c forked: the Concats are c and the clones
\* <c>_1 .. <c>_(k-1) for the k children of c; each has one child; every
\* child of c has exactly one of them as its parent; all have the parents of
\* c, and each of those parents has all of them among its children
ForkedInto(n0, n1, c) ==
    LET k == Cardinality(n0[c].children)
        names == {n0[c].name} \cup {n0[c].name \o SufIdx(i) : i \in 1..(k - 1)}
        forks == {q \in Concats(n1) : n1[q].name \in names}
    IN  /\ Concats(n1) = (Concats(n0) \ {c}) \cup forks
        /\ c \in forks /\ Cardinality(forks) = k
        /\ {n1[q].name : q \in forks} = names
        /\ \A q \in forks :
               /\ Cardinality(n1[q].children) = 1
               /\ n1[q].children \subseteq n0[c].children
               /\ n1[q].parents = n0[c].parents
               /\ \A g \in n0[c].parents : q \in n1[g].children
        /\ \A x \in n0[c].children :
               /\ n1[x].parents \subseteq forks
               /\ Cardinality(n1[x].parents) = 1
               /\ \A q \in n1[x].parents : x \in n1[q].children

\* fork_node leaves a Concat with one child as it is
SingleChildUnforked ==
    \A c \in Concats(nodes) :
        Cardinality(nodes[c].children) = 1 => fork_node(Now, c) = Now

\* C15: when MPCPushDown visits a boundary Concat that requires MPC and has
\* n > 1 children, the DAG it leaves holds exactly n Concats in its place: the
\* original and the clones <name>_1 .. <name>_(n-1), each with exactly one
\* child, every original child with exactly one of them as its parent, all
\* with the parents of the original, each of which lists all n among its
\* children.  fork_node leaves a Concat with a single child unchanged.
C15_ForkPerChild ==
    /\ [][(/\ WellFormedInput /\ pass = 1 /\ visited' # visited
            /\ nodes[Head(todo)].kind = "Concat"
            /\ requires_mpc(Now, Head(todo)) /\ is_boundary(Now, Head(todo))
            /\ Cardinality(nodes[Head(todo)].children) > 1)
           => (err' = "none" /\ ForkedInto(nodes, nodes', Head(todo)))]_vars
    /\ []SingleChildUnforked

\* MPCPushDown has forked a Concat with three children into three Concats
C15_ForkedInThree ==
    /\ WellFormedInput /\ input.shape = "ConcatFork3" /\ pass = 1 /\ Len(visited) = 3
    /\ Cardinality(Concats(nodes)) = 3

\* DAG n1 is DAG n0 with node a replaced by its hybrid form: one node of
\* the hybrid kind carries the name of a, with the parents, children and
\* relation of a, and records the smallest party of a's column-0 trust set
HybridOf(n0, n1, a) ==
    LET hs == {h \in LiveOf(n1) : n1[h].name = n0[a].name}
        ts == n0[a].cols[1].ts
    IN  /\ Cardinality(hs) = 1
        /\ \A h \in hs :
               /\ n1[h].kind = (IF n0[a].kind = "Aggregate" THEN "HybridAggregate"
                                ELSE "HybridJoin")
               /\ n1[h].tp \in ts /\ \A y \in ts : n1[h].tp <= y
               /\ n1[h].is_mpc /\ n1[h].cols = n0[a].cols /\ n1[h].sw = n0[a].sw
               /\ n1[h].parents = n0[a].parents /\ n1[h].children = n0[a].children
               /\ \A q \in n0[a].parents : h \in n1[q].children
               /\ \A c \in n0[a].children : h \in n1[c].parents

\* C16: when HybridOperatorOpt visits an Aggregate or a Join, the node is
\* replaced by a HybridAggregate or HybridJoin exactly when it is MPC and the
\* trust set of its output column 0 is not empty, and the hybrid node then
\* records the numerically smallest party of that trust set; otherwise the
\* visit changes nothing.
C16_HybridIffTrusted ==
    [][(/\ WellFormedInput /\ pass = 5 /\ visited' # visited
        /\ nodes[Head(todo)].kind \in {"Aggregate", "Join"})
       => /\ err' = "none"
          /\ IF nodes[Head(todo)].is_mpc /\ nodes[Head(todo)].cols[1].ts # {}
             THEN HybridOf(nodes, nodes', Head(todo))
             ELSE nodes' = nodes]_vars

\* HybridOperatorOpt has completed and has converted a node whose trust set
\* holds several parties, none of them party 1
C16_ConvertedAmongSeveral ==
    /\ WellFormedInput /\ PassDone(5)
    /\ \E h \in Live : /\ nodes[h].kind \in HybridKinds
                        /\ Cardinality(nodes[h].cols[1].ts) > 1
                        /\ 1 \notin nodes[h].cols[1].ts

\* the nodes of DAG n1 that DAG n0 does not have
AddedNodes(n0, n1) == LiveOf(n1) \ LiveOf(n0)

\* DAG n1 is DAG n0 with HybridJoin j replaced by a subgraph of size nodes
\* that ends in an MPC FlagJoin named as j and holding the children of j
JoinExpanded(n0, n1, j, size) ==
    /\ Cardinality(AddedNodes(n0, n1)) = size
    /\ \A q \in n0[j].parents : j \notin n1[q].children
    /\ \E f \in AddedNodes(n0, n1) :
           /\ n1[f].kind = "FlagJoin" /\ n1[f].name = n0[j].name
           /\ n1[f].is_mpc
           /\ n1[f].children = n0[j].children
           /\ \A c \in n0[j].children : f \in n1[c].parents /\ j \notin n1[c].parents

\* C17: when ExpandCompositeOps visits a HybridJoin whose trusted party is 1,
\* the node is replaced by a subgraph of exactly 11 nodes; the HybridJoin is
\* no longer a child of its former parents; the final FlagJoin carries the
\* join's relation name, is MPC and has exactly the join's children, each of
\* which names the FlagJoin as its parent.
C17_JoinExpandedInEleven ==
    [][(/\ WellFormedInput /\ ~use_leaky_ops /\ pass = 7 /\ visited' # visited
        /\ nodes[Head(todo)].kind = "HybridJoin" /\ nodes[Head(todo)].tp = 1)
       => JoinExpanded(nodes, nodes', Head(todo), 11)]_vars

\* the relation names of the nodes of the DAG are pairwise distinct
NamesDistinct ==
    \A i, j \in Live : i # j => nodes[i].name # nodes[j].name

\* C18: if the relation names of the input DAG are pairwise distinct, then
\* after every pass of rewrite_dag the relation names of the nodes in the
\* DAG are pairwise distinct.
C18_NamesStayDistinct ==
    (~DuplicateNames(BuildInput(input).n) /\ \E p \in 1..NumPasses : PassDone(p))
        => NamesDistinct

\* HybridOperatorOpt has left a hybrid node in the DAG that
\* ExpandCompositeOps is working on
HybridProduced ==
    pass = 7 /\ \E i \in LiveOf(pre) : pre[i].kind \in HybridKinds

\* C19: with use_leaky_ops = true, a DAG in which HybridOperatorOpt has
\* produced a HybridJoin or HybridAggregate is expanded by ExpandCompositeOps
\* and rewrite_dag goes on without raising: no visit of ExpandCompositeOps
\* raises, and when the pass has visited every node no hybrid node is left.
C19_LeakyExpands ==
    (WellFormedInput /\ use_leaky_ops /\ HybridProduced)
        => /\ err = "none"
           /\ todo = <<>> => \A i \in Live : nodes[i].kind \notin HybridKinds

\* node i and every parent of i are stored with one and the same party
LocalToOneParty(i) ==
    /\ Cardinality(nodes[i].sw) = 1
    /\ \A q \in nodes[i].parents : nodes[q].sw = nodes[i].sw

\* C20: in the DAG returned by rewrite_dag, for every node that is not MPC
\* and is neither a Close nor an Open, the output of every parent is stored
\* with exactly one party, the single party the node's own output is stored
\* with.
C20_LocalNodesOneParty ==
    (WellFormedInput /\ Returned /\ err = "none")
        => \A i \in Live : (~nodes[i].is_mpc /\ nodes[i].kind \notin {"Close", "Open"})
                               => LocalToOneParty(i)

\* the added nodes of DAG n1 of the given kind whose parent is of kind pk
AddedOf(n0, n1, kind, pk) ==
    {i \in AddedNodes(n0, n1) :
        n1[i].kind = kind /\ \E q \in n1[i].parents : n1[q].kind = pk}

\* DAG n1 is DAG n0 with HybridAggregate a expanded: the Shuffle, the
\* Persist, the key Project, both Closes and the IndexAggregate are MPC, the
\* Index, the SortBy, the CompNeighs and the dummy Project are local, the
\* Open is MPC or not as open_mpc says, and the IndexAggregate has the name
\* and the children of a
AggExpanded(n0, n1, a, open_mpc) ==
    LET parent == CHOOSE q \in n0[a].parents : TRUE
        Mpc(S, k, v) == Cardinality(S) = k /\ \A i \in S : n1[i].is_mpc = v
    IN  /\ Mpc(AddedOf(n0, n1, "Shuffle", n0[parent].kind), 1, TRUE)
        /\ Mpc(AddedOf(n0, n1, "Persist", "Shuffle"), 1, TRUE)
        /\ Mpc(AddedOf(n0, n1, "Project", "Shuffle"), 1, TRUE)
        /\ Mpc(AddedOf(n0, n1, "Open", "Project"), 1, open_mpc)
        /\ Mpc(AddedOf(n0, n1, "Index", "Open"), 1, FALSE)
        /\ Mpc(AddedOf(n0, n1, "SortBy", "Index"), 1, FALSE)
        /\ Mpc(AddedOf(n0, n1, "CompNeighs", "SortBy"), 1, FALSE)
        /\ Mpc(AddedOf(n0, n1, "Project", "SortBy"), 1, FALSE)
        /\ Mpc(AddedOf(n0, n1, "Close", "CompNeighs"), 1, TRUE)
        /\ Mpc(AddedOf(n0, n1, "Close", "Project"), 1, TRUE)
        /\ Mpc(AddedOf(n0, n1, "IndexAggregate", "Persist"), 1, TRUE)
        /\ \A r \in AddedOf(n0, n1, "IndexAggregate", "Persist") :
               n1[r].name = n0[a].name /\ n1[r].children = n0[a].children

\* ExpandCompositeOps visits a HybridAggregate and expands it
ExpandsAggregate ==
    /\ WellFormedInput /\ ~use_leaky_ops /\ pass = 7 /\ visited' # visited
    /\ nodes[Head(todo)].kind = "HybridAggregate" /\ err' = "none"

\* C21: in the expansion of a HybridAggregate the Shuffle, the Persist, the
\* key Project, both Closes and the IndexAggregate are MPC, and the Open to
\* the trusted party, the Index, the SortBy, the CompNeighs and the dummy
\* Project are local; the IndexAggregate keeps the name and the children of
\* the expanded node.
C21_AggExpansionOpenLocal ==
    [][ExpandsAggregate => AggExpanded(nodes, nodes', Head(todo), FALSE)]_vars

\* C21, amended: as above, except that the Open to the trusted party is MPC.
C21_AggExpansionOpenMpc ==
    [][ExpandsAggregate => AggExpanded(nodes, nodes', Head(todo), TRUE)]_vars

\* a HybridAggregate has been expanded: its IndexAggregate is in the DAG
\* with a child below it
C21_AggExpanded ==
    /\ WellFormedInput /\ PassDone(7)
    /\ \E i \in Live : nodes[i].kind = "IndexAggregate" /\ nodes[i].children # {}

\* the trust sets the Join j of DAG d should give its output columns: key
\* column i the parties trusted by left key i and by right key i, every
\* other column the parties trusted by its input column and by every key
JoinTrust(d, j) ==
    LET left_cols == InCols(d, j, 1)
        right_cols == InCols(d, j, 2)
        lk == d.n[j].c1
        rk == d.n[j].c2
        m == Len(lk)
        key(i) == left_cols[lk[i]].ts \cap right_cols[rk[i]].ts
        keys == {p \in Parties : \A i \in 1..m : p \in key(i)}
        lo == OtherIdxs(Len(left_cols), lk, 1)
        ro == OtherIdxs(Len(right_cols), rk, 1)
    IN  [k \in 1..(m + Len(lo) + Len(ro)) |->
            IF k <= m THEN key(k)
            ELSE IF k <= m + Len(lo) THEN left_cols[lo[k - m]].ts \cap keys
            ELSE right_cols[ro[k - m - Len(lo)]].ts \cap keys]

\* C22: when TrustSetPropDown visits a Join with m >= 1 key pairs, output key
\* column i gets the intersection of the trust sets of left key i and right
\* key i, and every other output column gets the intersection of its input
\* column's trust set with the trust sets of all m key pairs.
C22_JoinTrustAllKeys ==
    [][(/\ WellFormedInput /\ pass = 4 /\ visited' # visited
        /\ nodes[Head(todo)].kind = "Join" /\ Len(nodes[Head(todo)].c1) >= 1)
       => /\ err' = "none"
          /\ Len(nodes'[Head(todo)].cols) = Len(JoinTrust(Now, Head(todo)))
          /\ \A k \in 1..Len(nodes'[Head(todo)].cols) :
                nodes'[Head(todo)].cols[k].ts = JoinTrust(Now, Head(todo))[k]]_vars

\* the trust sets the Multiply or Divide i of DAG d should give its output
\* columns: the target column the parties trusted with every operand, every
\* other column the trust set of the input column at its index
LinearTrust(d, i) ==
    LET in_cols == InCols(d, i, 1)
        operands == d.n[i].c1
    IN  [j \in 1..Len(d.n[i].cols) |->
            IF j = d.n[i].tc
            THEN {p \in Parties : \A k \in 1..Len(operands) : p \in in_cols[operands[k]].ts}
            ELSE in_cols[j].ts]

\* TrustSetPropDown visits a Multiply or Divide whose target column is at
\* one of the indexes T
VisitsLinearOp(T) ==
    /\ WellFormedInput /\ pass = 4 /\ visited' # visited
    /\ nodes[Head(todo)].kind \in {"Multiply", "Divide"}
    /\ nodes[Head(todo)].tc \in T

\* C23: when TrustSetPropDown visits a Multiply or Divide whose target column
\* is at any index t, output column t gets the intersection of the trust sets
\* of all operands and every output column j # t gets exactly the trust set
\* of input column j.
C23_LinearTrustAnyTarget ==
    [][VisitsLinearOp(1..3)
       => /\ err' = "none"
          /\ \A j \in 1..Len(nodes'[Head(todo)].cols) :
                nodes'[Head(todo)].cols[j].ts = LinearTrust(Now, Head(todo))[j]]_vars

PushUpUnaryKinds == {"Project", "Filter", "Multiply", "Divide"}

\* the visit of node h takes DAG n0 to DAG n1 and makes h local
MadeLocal(n0, n1, h) == n0[h].is_mpc /\ ~n1[h].is_mpc

\* what a visit of MPCPushUp to node h may do to DAG n0, giving DAG n1
PushUpEffect(n0, n1, h) ==
    LET d == Dag(n0, "none", "asc")
    IN  \* only h can be made local, and only as a lower boundary of these kinds
        /\ \A i \in 1..Len(n0) :
               MadeLocal(n0, n1, i)
                   => /\ i = h /\ is_lower_boundary(d, h)
                      /\ n0[h].kind \in PushUpUnaryKinds \cup {"Concat"}
                      /\ n0[h].kind \in PushUpUnaryKinds
                            => \A q \in n0[h].parents : ~is_root(d, q)
        \* the stored-with pushed up by a node made local
        /\ MadeLocal(n0, n1, h)
               => \A q \in n0[h].parents : ~is_root(d, q) => n1[q].sw = n0[h].sw
        \* nothing else is stored elsewhere, roots least of all
        /\ \A i \in 1..Len(n0) :
               n1[i].sw # n0[i].sw
                   => MadeLocal(n0, n1, h) /\ i \in n0[h].parents /\ ~is_root(d, i)
        \* no node and no edge is added or removed
        /\ Len(n1) = Len(n0)
        /\ \A i \in 1..Len(n0) :
               /\ n1[i].kind = n0[i].kind /\ n1[i].name = n0[i].name
               /\ n1[i].parents = n0[i].parents /\ n1[i].par = n0[i].par
               /\ n1[i].children = n0[i].children
        /\ n0[h].kind = "ConcatCols" => n1[h].is_mpc

VisitsUnary ==
    /\ WellFormedInput /\ pass = 1 /\ visited' # visited
    /\ nodes[Head(todo)].kind \in PushedKinds

StoredElsewhere ==
    {i \in Live : Len(nodes[i].par) = 1 /\ nodes[i].kind \in PushedKinds \cup {"Aggregate"}
                   /\ nodes[nodes[i].par[1]].sw # nodes[i].sw}

\* C26: in a run of rewrite_dag on a well-formed input, InsertOpenAndCloseOps
\* never raises 'different stored_with on non-lower-boundary unary op': when
\* MPCPushUp has completed, every unary node whose input is stored elsewhere
\* than its output is an MPC lower boundary.
C26_NoStoredWithMismatch ==
    WellFormedInput
        => /\ err # "different stored_with on non-lower-boundary unary op"
           /\ PassDone(3) => \A i \in StoredElsewhere : is_lower_boundary(Now, i)

\* no Concat of the DAG is a lower boundary
NoLowerBoundaryConcat ==
    \A i \in Live : nodes[i].kind = "Concat" => ~is_lower_boundary(Now, i)

\* C27: in a run of rewrite_dag on a well-formed input the assertion of the
\* Concat rule of InsertOpenAndCloseOps never fails: no Concat is a lower
\* boundary when MPCPushUp has completed, nor at any later point up to the
\* end of InsertOpenAndCloseOps.
C27_ConcatNeverLowerBoundary ==
    WellFormedInput
        => /\ err # "AssertionError: concat is lower boundary"
           /\ (err = "none" /\ (PassDone(3) \/ pass \in 4..6)) => NoLowerBoundaryConcat

\* InsertOpenAndCloseOps has completed, has met an MPC Concat and has put a
\* Close above it
C27_ConcatClosed ==
    /\ WellFormedInput /\ PassDone(6)
    /\ \E i \in Live : /\ nodes[i].kind = "Concat" /\ nodes[i].is_mpc
                        /\ \E q \in nodes[i].parents : nodes[q].kind = "Close"

\* the kinds of node the claim about MPCPushDown covers
BasicKinds ==
    {"Create", "Project", "Filter", "Multiply", "Divide", "Aggregate", "Join", "Concat"}

BasicInput ==
    /\ WellFormedInput
    /\ \A i \in 1..Len(BuildInput(input).n) : BuildInput(input).n[i].kind \in BasicKinds

\* C28: on a well-formed input built only from Create, Project, Filter,
\* Multiply, Divide, Aggregate, Join and Concat nodes, MPCPushDown raises
\* nothing: no assertion of push_op_node_down, of split_agg or of the
\* Aggregate-over-Divide transform fails.
C28_PushDownNeverRaises ==
    (BasicInput /\ pass = 1) => err = "none"

\* the positions of the log at which the running pass visited a node
VisitsOfPass == {k \in 1..Len(visited) : visited[k][1] = PassNames[pass]}

\* the nodes the running pass has visited so far
VisitedByPass == {visited[k][2] : k \in VisitsOfPass}

\* the kinds of the expansion templates the dispatcher of rewrite() does not
\* know
ExpansionKinds == {"Shuffle", "Persist", "Index", "SortBy", "CompNeighs"}

\* C29: each pass visits exactly the nodes that were in the DAG when the pass
\* started, each once, so that a node inserted during a pass is first visited
\* by the next pass; and on an input whose nodes are all of kinds the
\* dispatcher handles rewrite_dag never raises 'Unknown class'.
C29_VisitsNodesOfPassStart ==
    /\ pass \in 1..NumPasses
          => /\ VisitedByPass \subseteq DagNodes(pre, roots)
             /\ Cardinality(VisitsOfPass) = Cardinality(VisitedByPass)
             /\ PassDone(pass) => VisitedByPass = DagNodes(pre, roots)
    /\ (\A i \in 1..Len(BuildInput(input).n) :
            BuildInput(input).n[i].kind \in DispatchedKinds)
          => err # "Unknown class"

\* rewrite_dag has returned a DAG with a Shuffle in it, inserted by
\* ExpandCompositeOps and visited by StoredWithSimplifier alone
C29_ExpansionVisitedByLastPass ==
    /\ Returned /\ err = "none"
    /\ \E i \in Live :
          /\ nodes[i].kind \in ExpansionKinds
          /\ \E k \in 1..Len(visited) : visited[k] = <<"StoredWithSimplifier", i>>
          /\ \A k \in 1..Len(visited) : visited[k][2] = i => visited[k][1] = "StoredWithSimplifier"

\* the nodes of the DAG that are not MPC below a parent that is
LocalBelowMpc ==
    {i \in Live : ~nodes[i].is_mpc /\ \E q \in nodes[i].parents : nodes[q].is_mpc}

\* C30: when MPCPushDown has completed, every node with at least one MPC
\* parent is MPC itself, whatever its kind.
C30_MpcClosedDownwards ==
    (WellFormedInput /\ PassDone(1)) => LocalBelowMpc = {}

====
